---- MODULE Spec2Model ----
(***************************************************************************)
(* Model of the quantitative path of lousa-assurance: the log-odds         *)
(* evaluator of src/src/lousa/eval.py (evaluate_claim, evaluate_note) and  *)
(* the greedy budget selection of safety_protocol.py (prioritize_cmd).     *)
(*                                                                         *)
(* Numbers.  Python floats are modelled in fixed point:                    *)
(*   - a probability p is the integer p * PScale, 0 .. PScale;             *)
(*   - a log-odds value is an integer number of units of ln(2)/LS, so      *)
(*     math.log(x) is LS*log2(x) and math.exp(l) is 2^(l/LS);              *)
(*   - exp() and the decay factor 0.5^x are integers scaled by ZScale;     *)
(*   - a likelihood ratio is an exact fraction <<num, den>>;               *)
(*   - float('inf') and float('nan') are the values PInf, NInf, NaN.       *)
(* Like the floats, the fixed point rounds: the logistic transform yields  *)
(* exactly 0 or exactly PScale once exp() underflows.                      *)
(***************************************************************************)
EXTENDS Integers, Sequences, FiniteSets, TLC

\* ------------------------------------------------------------------------
\* Precision of the fixed-point arithmetic
\* ------------------------------------------------------------------------
PBits == 10
PScale == 2 ^ PBits          \* probability 1.0
ZScale == 2 ^ 10             \* scale of exp() results and of decay factors
LS == 8                      \* log-odds units per factor of two

\* Optional fields: None is the value of an unset Optional[...] field.
None == -1

\* float('inf'), float('-inf'), float('nan') as they arise from weight=inf
PInf == 1000000
NInf == 0 - PInf
NaN == 2 * PInf
IsFinite(x) == x > NInf /\ x < PInf

Abs(x) == IF x < 0 THEN 0 - x ELSE x
Min(a, b) == IF a <= b THEN a ELSE b
Max(a, b) == IF a >= b THEN a ELSE b

\* a / b rounded to the nearest integer, halves away from zero (b > 0)
RoundDiv(a, b) == IF a >= 0 THEN (2 * a + b) \div (2 * b)
                  ELSE 0 - ((2 * (0 - a) + b) \div (2 * b))

\* ZScale * 2^(f/LS) for f = 0 .. LS-1, rounded
Exp2Tab == <<1024, 1117, 1218, 1328, 1448, 1579, 1722, 1878>>

\* math.exp(l) for l <= 0 (the only sign eval.py ever passes), scaled by
\* ZScale; underflows to 0 as the float does for very negative arguments.
ExpNeg(l) ==
    IF l = NInf THEN 0
    ELSE LET q == (0 - l + LS - 1) \div LS      \* ceil(-l / LS)
             r == q * LS + l                    \* 0 .. LS-1
         IN IF q > 20 THEN 0 ELSE Exp2Tab[r + 1] \div (2 ^ q)

\* floor(log2(num/den)) for num >= den > 0
RECURSIVE FloorLog2(_, _)
FloorLog2(num, den) == IF 2 * den > num THEN 0 ELSE 1 + FloorLog2(num, 2 * den)

\* math.log(num/den) for num >= den > 0, in log-odds units, rounded down
LogGe1(num, den) ==
    LET q == FloorLog2(num, den)
        d == den * (2 ^ q)
        r == CHOOSE f \in 0 .. LS - 1 :
                /\ Exp2Tab[f + 1] * d <= num * ZScale
                /\ (f = LS - 1 \/ Exp2Tab[f + 2] * d > num * ZScale)
    IN q * LS + r

\* math.log(num/den) for num, den > 0
MathLog(num, den) == IF num >= den THEN LogGe1(num, den) ELSE 0 - LogGe1(den, num)


\* x * y for a log-odds value x and a plain number y (float multiplication)
FMul(x, y) ==
    IF x = NaN \/ y = NaN THEN NaN
    ELSE IF ~IsFinite(x) \/ ~IsFinite(y)
         THEN IF x = 0 \/ y = 0 THEN NaN
              ELSE IF (x > 0) = (y > 0) THEN PInf ELSE NInf
         ELSE x * y

\* x * d for a log-odds value x and a factor d scaled by ZScale
FMulScaled(x, d) ==
    IF x = NaN THEN NaN
    ELSE IF ~IsFinite(x) THEN (IF d = 0 THEN NaN ELSE x)
         ELSE RoundDiv(x * d, ZScale)

\* An addition that drops its second operand
FAdd_left(x, y) == x

\* x + y for log-odds values (float addition)
FAdd(x, y) ==
    IF x = NaN \/ y = NaN THEN NaN
    ELSE IF ~IsFinite(x) THEN (IF ~IsFinite(y) /\ x # y THEN NaN ELSE x)
         ELSE IF ~IsFinite(y) THEN y ELSE x + y

\* ------------------------------------------------------------------------
\* Utility math helpers (eval.py 36-97)
\* ------------------------------------------------------------------------
EpsInv == 1000000000                              \* eps = 1e-9
Eps == (PScale + EpsInv - 1) \div EpsInv          \* eps on the grid

_clamp_prob(p) == Min(Max(p, Eps), PScale - Eps)

\* Raises ValueError unless 0 < p < 1 (a NaN fails every comparison).
_prob_to_logodds(p) ==
    IF p = NaN \/ ~(0 < p /\ p < PScale)
    THEN [ok |-> FALSE, exc |-> "ValueError"]
    ELSE LET q == _clamp_prob(p)
         IN [ok |-> TRUE, val |-> MathLog(q, PScale - q)]

_logodds_to_prob(l) ==
    IF l = NaN THEN NaN                           \* l >= 0 is False; exp(nan)
    ELSE IF l >= 0
         THEN LET z == ExpNeg(IF l = PInf THEN NInf ELSE 0 - l)
              IN RoundDiv(PScale * ZScale, ZScale + z)
         ELSE LET z == ExpNeg(l)
              IN RoundDiv(PScale * z, ZScale + z)

\* Decay factor scaled by ZScale; ages and half-lives are whole days.
\* _half_life_decay that takes the early return for every item
_half_life_decay_off(age_days, halflife_days) == ZScale

_half_life_decay(age_days, halflife_days) ==
    IF halflife_days = None \/ halflife_days <= 0 THEN ZScale
    ELSE ExpNeg(0 - RoundDiv(Max(age_days, 0) * LS, halflife_days))

\* ------------------------------------------------------------------------
\* Core evaluation (eval.py 177-311)
\* ------------------------------------------------------------------------
Postures == {"ACCEPTABLE", "CONDITIONAL", "BLOCKING", "EXPIRED"}

\* An EvaluationError: the text of its message and the identifiers the
\* message's f-string interpolates.
EvaluationError(text, names) ==
    [ok |-> FALSE, exc |-> "EvaluationError", text |-> text, names |-> names]

\* _map_posture with a strict comparison against the blocking threshold
_map_posture_strict(posterior, claim, expired) ==
    IF posterior = NaN \/ ~(0 <= posterior /\ posterior <= PScale)
    THEN EvaluationError("Invalid posterior probability", {})
    ELSE IF expired THEN [ok |-> TRUE, val |-> "EXPIRED"]
    ELSE IF ~(/\ 0 < claim.threshold_conditional
              /\ claim.threshold_conditional < claim.threshold_blocking
              /\ claim.threshold_blocking < PScale)
    THEN EvaluationError("Invalid thresholds", {})
    ELSE IF posterior > claim.threshold_blocking THEN [ok |-> TRUE, val |-> "BLOCKING"]
    ELSE IF posterior >= claim.threshold_conditional THEN [ok |-> TRUE, val |-> "CONDITIONAL"]
    ELSE [ok |-> TRUE, val |-> "ACCEPTABLE"]

_map_posture(posterior, claim, expired) ==
    IF posterior = NaN \/ ~(0 <= posterior /\ posterior <= PScale)
    THEN EvaluationError("Invalid posterior probability", {})
    ELSE IF expired THEN [ok |-> TRUE, val |-> "EXPIRED"]
    ELSE IF ~(/\ 0 < claim.threshold_conditional
              /\ claim.threshold_conditional < claim.threshold_blocking
              /\ claim.threshold_blocking < PScale)
    THEN EvaluationError("Invalid thresholds", {})
    ELSE IF posterior >= claim.threshold_blocking THEN [ok |-> TRUE, val |-> "BLOCKING"]
    ELSE IF posterior >= claim.threshold_conditional THEN [ok |-> TRUE, val |-> "CONDITIONAL"]
    ELSE [ok |-> TRUE, val |-> "ACCEPTABLE"]

\* `now` is offset-aware (eval.py 33); comparing it with, or subtracting
\* from it, an offset-naive datetime of the claim raises TypeError.
\* _decay_prior_logodds returning 1.0 as the factor whatever it applied
_decay_prior_logodds_unrecorded(claim, now) ==
    LET lo == _prob_to_logodds(claim.prior)
    IN IF ~lo.ok THEN EvaluationError("Invalid prior probability", {})
       ELSE IF claim.staleness_halflife_days # None
               /\ claim.staleness_halflife_days # 0
               /\ claim.valid_from # None
       THEN IF claim.naive
            THEN EvaluationError("Error calculating prior decay", {})
            ELSE LET decay_factor == _half_life_decay(now - claim.valid_from,
                                                      claim.staleness_halflife_days)
                 IN [ok |-> TRUE, logodds |-> FMulScaled(lo.val, decay_factor),
                     decay |-> ZScale]
       ELSE [ok |-> TRUE, logodds |-> lo.val, decay |-> ZScale]

_decay_prior_logodds(claim, now) ==
    LET lo == _prob_to_logodds(claim.prior)
    IN IF ~lo.ok THEN EvaluationError("Invalid prior probability", {})
       ELSE IF claim.staleness_halflife_days # None
               /\ claim.staleness_halflife_days # 0
               /\ claim.valid_from # None
       THEN IF claim.naive
            THEN EvaluationError("Error calculating prior decay", {})
            ELSE LET decay_factor == _half_life_decay(now - claim.valid_from,
                                                      claim.staleness_halflife_days)
                 IN [ok |-> TRUE, logodds |-> FMulScaled(lo.val, decay_factor),
                     decay |-> decay_factor]
       ELSE [ok |-> TRUE, logodds |-> lo.val, decay |-> ZScale]

\* The evidence taken in declaration order, without sorting
SortedByObservedAt_unsorted(evs) == evs

\* sorted(claim.evidence, key=lambda e: e.observed_at): stable, ascending
RECURSIVE SortedByObservedAt(_)
SortedByObservedAt(evs) ==
    IF evs = <<>> THEN <<>>
    ELSE LET rest == SortedByObservedAt(Tail(evs))
             e == Head(evs)
             k == Cardinality({i \in 1 .. Len(rest) :
                                  rest[i].observed_at < e.observed_at})
         IN SubSeq(rest, 1, k) \o <<e>> \o SubSeq(rest, k + 1, Len(rest))

\* The list after an in-place claim.evidence.sort(key=...)
evidence_after_sort(evidence) == SortedByObservedAt(evidence)

\* The list passed to sorted() after the call: sorted() builds a new list
\* and leaves its argument as it was.
evidence_after_sorted(evidence) == evidence

\* The Claim object after an evaluate_claim call on it: evaluate_claim
\* assigns no attribute of the claim, its evidence items or investigations.
ClaimAfterEvaluate(claim) ==
    [claim EXCEPT !.evidence = evidence_after_sorted(claim.evidence)]

\* The claims of the RiskNote after an evaluate_note call on it.
NoteAfterEvaluate(claims) == [i \in DOMAIN claims |-> ClaimAfterEvaluate(claims[i])]

\* The evidence loop with the two likelihood ratios taken the wrong way
\* round: lr_neg for an item that supports, lr_pos for one that does not
RECURSIVE ApplyEvidence_swapped(_, _, _, _, _)
ApplyEvidence_swapped(evs, claim, now, logodds, contribs) ==
    IF evs = <<>> THEN [ok |-> TRUE, logodds |-> logodds, contribs |-> contribs]
    ELSE LET ev == Head(evs)
             lr == IF ev.supports THEN ev.lr_neg ELSE ev.lr_pos
         IN IF lr[1] <= 0
            THEN EvaluationError("Error processing evidence", {ev.id})
            ELSE IF claim.naive
            THEN EvaluationError("Unexpected error evaluating claim", {claim.id})
            ELSE LET log_lr == MathLog(lr[1], lr[2])
                     decay == _half_life_decay(now - ev.observed_at, ev.halflife_days)
                     delta == FMulScaled(FMul(log_lr, ev.weight), decay)
                 IN ApplyEvidence_swapped(Tail(evs), claim, now, FAdd(logodds, delta),
                        Append(contribs,
                               [evidence_id |-> ev.id, supports |-> ev.supports,
                                lr_applied |-> lr, weight |-> ev.weight,
                                decay |-> decay, delta_logodds |-> delta,
                                observed_at |-> ev.observed_at]))

\* One pass of the evidence loop (eval.py 266-288) over the sorted items.
RECURSIVE ApplyEvidence(_, _, _, _, _)
ApplyEvidence(evs, claim, now, logodds, contribs) ==
    IF evs = <<>> THEN [ok |-> TRUE, logodds |-> logodds, contribs |-> contribs]
    ELSE LET ev == Head(evs)
             lr == IF ev.supports THEN ev.lr_pos ELSE ev.lr_neg
         IN IF lr[1] <= 0                         \* math.log: ValueError
            THEN EvaluationError("Error processing evidence", {ev.id})
            ELSE IF claim.naive                   \* now - observed_at: TypeError
            THEN EvaluationError("Unexpected error evaluating claim", {claim.id})
            ELSE LET log_lr == MathLog(lr[1], lr[2])
                     decay == _half_life_decay(now - ev.observed_at, ev.halflife_days)
                     delta == FMulScaled(FMul(log_lr, ev.weight), decay)
                 IN ApplyEvidence(Tail(evs), claim, now, FAdd(logodds, delta),
                        Append(contribs,
                               [evidence_id |-> ev.id, supports |-> ev.supports,
                                lr_applied |-> lr, weight |-> ev.weight,
                                decay |-> decay, delta_logodds |-> delta,
                                observed_at |-> ev.observed_at]))

\* evaluate_claim that treats a claim as expired from valid_until on
evaluate_claim_expired_early(claim, now) ==
    IF claim.valid_until # None /\ claim.naive
    THEN EvaluationError("Unexpected error evaluating claim", {claim.id})
    ELSE
    LET expired == claim.valid_until # None /\ now >= claim.valid_until
        pr == _decay_prior_logodds(claim, now)
    IN IF ~pr.ok THEN pr
       ELSE LET ev == ApplyEvidence(SortedByObservedAt(claim.evidence), claim, now,
                                    pr.logodds, <<>>)
            IN IF ~ev.ok THEN ev
               ELSE LET posterior == _logodds_to_prob(ev.logodds)
                        posture == _map_posture(posterior, claim, expired)
                    IN IF ~posture.ok THEN posture
                       ELSE [ok |-> TRUE,
                             val |-> [claim_id |-> claim.id,
                                      posterior |-> posterior,
                                      posture |-> posture.val,
                                      expired |-> expired,
                                      prior |-> claim.prior,
                                      prior_decay |-> pr.decay,
                                      prior_logodds_decayed |-> pr.logodds,
                                      contributions |-> ev.contribs]]

\* evaluate_claim(claim, now): [ok |-> TRUE, val |-> ClaimResult] or the
\* EvaluationError it raises.
evaluate_claim(claim, now) ==
    IF claim.valid_until # None /\ claim.naive    \* now > valid_until: TypeError
    THEN EvaluationError("Unexpected error evaluating claim", {claim.id})
    ELSE
    LET expired == claim.valid_until # None /\ now > claim.valid_until
        pr == _decay_prior_logodds(claim, now)
    IN IF ~pr.ok THEN pr
       ELSE LET ev == ApplyEvidence(SortedByObservedAt(claim.evidence), claim, now,
                                    pr.logodds, <<>>)
            IN IF ~ev.ok THEN ev
               ELSE LET posterior == _logodds_to_prob(ev.logodds)
                        posture == _map_posture(posterior, claim, expired)
                    IN IF ~posture.ok THEN posture
                       ELSE [ok |-> TRUE,
                             val |-> [claim_id |-> claim.id,
                                      posterior |-> posterior,
                                      posture |-> posture.val,
                                      expired |-> expired,
                                      prior |-> claim.prior,
                                      prior_decay |-> pr.decay,
                                      prior_logodds_decayed |-> pr.logodds,
                                      contributions |-> ev.contribs]]

\* ------------------------------------------------------------------------
\* Note-level evaluation (eval.py 339-442)
\* ------------------------------------------------------------------------

\* The claims loop leaving at the first claim that raises (break for continue)
RECURSIVE EvaluateAllClaims_break(_, _, _, _)
EvaluateAllClaims_break(claims, now, results, printed) ==
    IF claims = <<>> THEN [claim_results |-> results, printed |-> printed]
    ELSE LET r == evaluate_claim(Head(claims), now)
         IN IF r.ok
            THEN EvaluateAllClaims_break(Tail(claims), now, Append(results, r.val), printed)
            ELSE [claim_results |-> results,
                  printed |-> Append(printed, [text |-> r.text, names |-> r.names])]

\* The claims loop (eval.py 355-363): results of the claims that evaluate,
\* and one printed "Warning: {e}" line per claim that raises.
RECURSIVE EvaluateAllClaims(_, _, _, _)
EvaluateAllClaims(claims, now, results, printed) ==
    IF claims = <<>> THEN [claim_results |-> results, printed |-> printed]
    ELSE LET r == evaluate_claim(Head(claims), now)
         IN IF r.ok
            THEN EvaluateAllClaims(Tail(claims), now, Append(results, r.val), printed)
            ELSE EvaluateAllClaims(Tail(claims), now, results,
                                   Append(printed, [text |-> r.text, names |-> r.names]))

\* posture_priority with CONDITIONAL ranked above BLOCKING
posture_priority_swapped(p) ==
    CASE p = "BLOCKING" -> 2
      [] p = "CONDITIONAL" -> 3
      [] p = "ACCEPTABLE" -> 1
      [] p = "EXPIRED" -> 0
      [] OTHER -> -1

posture_priority(p) ==
    CASE p = "BLOCKING" -> 3
      [] p = "CONDITIONAL" -> 2
      [] p = "ACCEPTABLE" -> 1
      [] p = "EXPIRED" -> 0
      [] OTHER -> -1

\* max(postures of the non-expired results, default=ACCEPTABLE, key=priority)
OverallPosture(results) ==
    LET ps == {results[i].posture : i \in {k \in 1 .. Len(results) : ~results[k].expired}}
    IN IF ps = {} THEN "ACCEPTABLE"
       ELSE CHOOSE p \in ps : \A q \in ps : posture_priority(p) >= posture_priority(q)

\* next((cr for cr in claim_results if cr.claim_id == claim.id), None)
FirstResultFor(results, id) ==
    LET hits == {k \in 1 .. Len(results) : results[k].claim_id = id}
    IN IF hits = {} THEN [found |-> FALSE]
       ELSE [found |-> TRUE,
             val |-> results[CHOOSE k \in hits : \A m \in hits : k <= m]]

DeltaEpsInv == 1000000       \* the negligible-impact filter, 1e-6
DphScale == 2 ^ 6            \* fixed-point scale of delta_per_hour

\* The recommendation of one investigation (eval.py 397-430), or none.
\* expected_delta is scaled by PScale * PScale.
RecommendationFor(claim, claim_result, current_logodds, inv) ==
    IF inv.probability_support <= 0 \/ inv.probability_support >= PScale
    THEN <<>>
    ELSE LET support_logodds == FAdd(current_logodds,
                 MathLog(inv.expected_lr_support[1], inv.expected_lr_support[2]))
             support_posterior == _logodds_to_prob(support_logodds)
             refute_logodds == FAdd(current_logodds,
                 MathLog(inv.expected_lr_refute[1], inv.expected_lr_refute[2]))
             refute_posterior == _logodds_to_prob(refute_logodds)
             p_support == inv.probability_support
             p_refute == PScale - p_support
             expected_delta ==
                 p_support * (support_posterior - claim_result.posterior)
                 + p_refute * (refute_posterior - claim_result.posterior)
         IN IF Abs(expected_delta) < (PScale * PScale + DeltaEpsInv - 1) \div DeltaEpsInv
               \/ inv.cost_hours <= 0
            THEN <<>>
            ELSE << [investigation_id |-> inv.id,
                     claim_id |-> claim.id,
                     expected_delta |-> expected_delta,
                     cost_hours |-> inv.cost_hours,
                     delta_per_hour |->
                         RoundDiv(Abs(expected_delta) * DphScale, inv.cost_hours),
                     probability_support |-> inv.probability_support] >>

RECURSIVE RecommendationsOf(_, _, _, _)
RecommendationsOf(claim, claim_result, current_logodds, invs) ==
    IF invs = <<>> THEN <<>>
    ELSE RecommendationFor(claim, claim_result, current_logodds, Head(invs))
         \o RecommendationsOf(claim, claim_result, current_logodds, Tail(invs))

\* The recommendation loop (eval.py 380-430).  _prob_to_logodds raises
\* ValueError outside any try block: [ok |-> FALSE] is that exception
\* leaving evaluate_note.
RECURSIVE Recommend(_, _, _)
Recommend(claims, results, recs) ==
    IF claims = <<>> THEN [ok |-> TRUE, val |-> recs]
    ELSE LET claim == Head(claims)
             cr == FirstResultFor(results, claim.id)
         IN IF claim.investigations = <<>> \/ ~cr.found
            THEN Recommend(Tail(claims), results, recs)
            ELSE LET lo == _prob_to_logodds(cr.val.posterior)
                 IN IF ~lo.ok THEN [ok |-> FALSE, exc |-> "ValueError"]
                    ELSE Recommend(Tail(claims), results,
                             recs \o RecommendationsOf(claim, cr.val, lo.val,
                                                       claim.investigations))

\* The sort without reverse=True: ascending
RECURSIVE SortedByDeltaPerHourAsc(_)
SortedByDeltaPerHourAsc(recs) ==
    IF recs = <<>> THEN <<>>
    ELSE LET rest == SortedByDeltaPerHourAsc(Tail(recs))
             r == Head(recs)
             k == Cardinality({i \in 1 .. Len(rest) :
                                  rest[i].delta_per_hour < r.delta_per_hour})
         IN SubSeq(rest, 1, k) \o <<r>> \o SubSeq(rest, k + 1, Len(rest))

\* A descending sort that is not stable: equal keys come out reversed
RECURSIVE SortedByDeltaPerHourDescUnstable(_)
SortedByDeltaPerHourDescUnstable(recs) ==
    IF recs = <<>> THEN <<>>
    ELSE LET rest == SortedByDeltaPerHourDescUnstable(Tail(recs))
             r == Head(recs)
             k == Cardinality({i \in 1 .. Len(rest) :
                                  rest[i].delta_per_hour >= r.delta_per_hour})
         IN SubSeq(rest, 1, k) \o <<r>> \o SubSeq(rest, k + 1, Len(rest))

\* recommendations.sort(key=delta_per_hour, reverse=True): stable
RECURSIVE SortedByDeltaPerHourDesc(_)
SortedByDeltaPerHourDesc(recs) ==
    IF recs = <<>> THEN <<>>
    ELSE LET rest == SortedByDeltaPerHourDesc(Tail(recs))
             r == Head(recs)
             k == Cardinality({i \in 1 .. Len(rest) :
                                  rest[i].delta_per_hour > r.delta_per_hour})
         IN SubSeq(rest, 1, k) \o <<r>> \o SubSeq(rest, k + 1, Len(rest))

\* ------------------------------------------------------------------------
\* Budget selection (safety_protocol.py 80-148)
\* ------------------------------------------------------------------------
Digits == {"0", "1", "2", "3", "4", "5", "6", "7", "8", "9"}
DigitValue(ch) ==
    CASE ch = "0" -> 0 [] ch = "1" -> 1 [] ch = "2" -> 2 [] ch = "3" -> 3
      [] ch = "4" -> 4 [] ch = "5" -> 5 [] ch = "6" -> 6 [] ch = "7" -> 7
      [] ch = "8" -> 8 [] ch = "9" -> 9

\* float(num) for a string of digits; float("") raises ValueError
RECURSIVE DigitsValue(_, _)
DigitsValue(num, acc) ==
    IF num = <<>> THEN acc
    ELSE DigitsValue(Tail(num), 10 * acc + DigitValue(Head(num)))

ParseFloat(num) ==
    IF num = <<>> THEN [ok |-> FALSE, exc |-> "ValueError"]
    ELSE [ok |-> TRUE, val |-> DigitsValue(num, 0)]

\* The character loop of parse_iso_duration (safety_protocol.py 127-143)
\* over a string given as its characters; days and seconds accumulate.
RECURSIVE ParseDurationLoop(_, _, _, _, _)
ParseDurationLoop(chars, time_part, num, days, seconds) ==
    IF chars = <<>> THEN [ok |-> TRUE, val |-> days * 86400 + seconds]
    ELSE LET ch == Head(chars)
             rest == Tail(chars)
             n == ParseFloat(num)
         IN IF ch = "T" THEN ParseDurationLoop(rest, TRUE, num, days, seconds)
            ELSE IF ch \in Digits \/ ch = "."
            THEN ParseDurationLoop(rest, time_part, Append(num, ch), days, seconds)
            ELSE IF ch = "W"
            THEN IF ~n.ok THEN n
                 ELSE ParseDurationLoop(rest, time_part, <<>>, days + n.val * 7, seconds)
            ELSE IF ch = "D"
            THEN IF ~n.ok THEN n
                 ELSE ParseDurationLoop(rest, time_part, <<>>, days + n.val, seconds)
            ELSE IF ch = "H"
            THEN IF ~n.ok THEN n
                 ELSE ParseDurationLoop(rest, time_part, <<>>, days, seconds + n.val * 3600)
            ELSE IF ch = "M" /\ time_part
            THEN IF ~n.ok THEN n
                 ELSE ParseDurationLoop(rest, time_part, <<>>, days, seconds + n.val * 60)
            ELSE IF ch = "S"
            THEN IF ~n.ok THEN n
                 ELSE ParseDurationLoop(rest, time_part, <<>>, days, seconds + n.val)
            ELSE ParseDurationLoop(rest, time_part, num, days, seconds)

\* parse_iso_duration(s): the duration in seconds, or ValueError
parse_iso_duration(s) ==
    IF s = <<>> \/ Head(s) # "P" THEN [ok |-> FALSE, exc |-> "ValueError"]
    ELSE ParseDurationLoop(Tail(s), FALSE, <<>>, 0, 0)

\* duration_to_hours(s) = total_seconds() / 3600.0.  Hours are kept as the
\* whole number of seconds, i.e. in units of 1/3600 hour.
duration_to_hours(s) == parse_iso_duration(s)

parse_duration_to_hours(s) == duration_to_hours(s)

\* value = inf if hours <= 0 else score / hours, as the fraction
\* <<numerator, denominator>>; <<1, 0>> is float('inf').
ValueOf(score, hours) == IF hours <= 0 THEN <<1, 0>> ELSE <<score, hours>>

ValueGreater(a, b) ==
    IF a[2] = 0 THEN b[2] # 0
    ELSE IF b[2] = 0 THEN FALSE
    ELSE a[1] * b[2] > b[1] * a[2]

\* The items of the files that load (safety_protocol.py 83-95); a file
\* whose resource_estimate does not parse is skipped.
RECURSIVE CollectItems(_, _)
CollectItems(files, items) ==
    IF files = <<>> THEN items
    ELSE LET ex == Head(files)
             hours == duration_to_hours(ex.resource_estimate)
         IN IF ~hours.ok THEN CollectItems(Tail(files), items)
            ELSE CollectItems(Tail(files),
                     Append(items, [value |-> ValueOf(ex.evoi_score, hours.val),
                                    path |-> ex.path,
                                    score |-> ex.evoi_score,
                                    hours |-> hours.val]))

\* items.sort(reverse=True, key=lambda t: t[0]): stable, descending
RECURSIVE SortedByValueDesc(_)
SortedByValueDesc(items) ==
    IF items = <<>> THEN <<>>
    ELSE LET rest == SortedByValueDesc(Tail(items))
             it == Head(items)
             k == Cardinality({i \in 1 .. Len(rest) :
                                  ValueGreater(rest[i].value, it.value)})
         IN SubSeq(rest, 1, k) \o <<it>> \o SubSeq(rest, k + 1, Len(rest))

\* The test of the selection loop that ignores the hours of the candidate
FitsIgnoringHours(total, hours, budget_hours) == total <= budget_hours

\* The test of the selection loop with a strict comparison
FitsStrictly(total, hours, budget_hours) == total + hours < budget_hours

\* if total + hours <= budget_hours (safety_protocol.py 100)
Fits(total, hours, budget_hours) == total + hours <= budget_hours

\* ------------------------------------------------------------------------
\* Belief models (epistemic.py, assurance.py 16-53)
\* ------------------------------------------------------------------------
\* A dict is its keys in insertion order and a function on them.
\* add_world (epistemic.py 16-17): a second world of the same id replaces
\* the facts and keeps the position of the key.
RECURSIVE AddWorlds(_, _)
AddWorlds(worlds, M) ==
    IF worlds = <<>> THEN M
    ELSE LET w == Head(worlds)
             keys == IF \E i \in 1 .. Len(M.keys) : M.keys[i] = w.id
                     THEN M.keys ELSE Append(M.keys, w.id)
             facts == [id \in DOMAIN M.facts \cup {w.id} |->
                          IF id = w.id THEN w.facts ELSE M.facts[id]]
         IN AddWorlds(Tail(worlds), [keys |-> keys, facts |-> facts])

\* add_edge (epistemic.py 19-21): rel as the set of <<agent, frm, to>>; an
\* agent that is not declared gets its own relation.
add_edge(rel, agent, frm, to) == rel \cup {<<agent, frm, to>>}

RECURSIVE AddEdges(_, _)
AddEdges(edges, rel) ==
    IF edges = <<>> THEN rel
    ELSE AddEdges(Tail(edges),
                  add_edge(rel, Head(edges).agent, Head(edges).frm, Head(edges).to))

\* graph.setdefault(e["frm"], [e["to"]]): only the first edge of a world
RECURSIVE GraphOfEdges_first(_, _)
GraphOfEdges_first(edges, graph) ==
    IF edges = <<>> THEN graph
    ELSE LET e == Head(edges)
             known == \E i \in 1 .. Len(graph.keys) : graph.keys[i] = e.frm
             keys == IF known THEN graph.keys ELSE Append(graph.keys, e.frm)
             adj == [u \in DOMAIN graph.adj \cup {e.frm} |->
                        IF u = e.frm
                        THEN (IF known /\ graph.adj[u] # <<>> THEN graph.adj[u]
                              ELSE <<e.to>>)
                        ELSE graph.adj[u]]
         IN GraphOfEdges_first(Tail(edges), [keys |-> keys, adj |-> adj])

\* graph.setdefault(e["frm"], []).append(e["to"]) over the edges
\* (assurance.py 28-29)
RECURSIVE GraphOfEdges(_, _)
GraphOfEdges(edges, graph) ==
    IF edges = <<>> THEN graph
    ELSE LET e == Head(edges)
             known == \E i \in 1 .. Len(graph.keys) : graph.keys[i] = e.frm
             keys == IF known THEN graph.keys ELSE Append(graph.keys, e.frm)
             adj == [u \in DOMAIN graph.adj \cup {e.frm} |->
                        IF u = e.frm
                        THEN Append(IF known THEN graph.adj[u] ELSE <<>>, e.to)
                        ELSE graph.adj[u]]
         IN GraphOfEdges(Tail(edges), [keys |-> keys, adj |-> adj])

\* build_kripke (assurance.py 16-30): the model M, the plain graph and the
\* labels.  graph and label get one key per declared world, in order.
build_kripke(belief_model) ==
    LET worlds == AddWorlds(belief_model.worlds, [keys |-> <<>>, facts |-> <<>>])
        M == [agents |-> {belief_model.agents[i] : i \in 1 .. Len(belief_model.agents)},
              worlds |-> worlds,
              rel |-> AddEdges(belief_model.edges, {})]
        graph0 == [keys |-> worlds.keys,
                   adj |-> [u \in DOMAIN worlds.facts |-> <<>>]]
    IN [M |-> M,
        graph |-> GraphOfEdges(belief_model.edges, graph0),
        label |-> worlds.facts]

\* successors (epistemic.py 23-24)
successors(M, agent, w) == {r[3] : r \in {x \in M.rel : x[1] = agent /\ x[2] = w}}

\* holds (epistemic.py 26-27): self.worlds[w] raises KeyError for a world
\* that was not added
holds(M, prop, w) ==
    IF w \in DOMAIN M.worlds.facts
    THEN [ok |-> TRUE, val |-> prop \in M.worlds.facts[w]]
    ELSE [ok |-> FALSE, exc |-> "KeyError"]

\* believes that asks for a successor where prop holds
believes_some(M, agent, prop, w) ==
    LET outs == {holds(M, prop, v) : v \in successors(M, agent, w)}
    IN IF \E o \in outs : o.ok /\ o.val THEN {[ok |-> TRUE, val |-> TRUE]}
       ELSE {[ok |-> TRUE, val |-> FALSE]}

\* believes (epistemic.py 29-33).  The loop runs over a set of strings, in
\* an order that changes from one process to the next: the first successor
\* that raises or fails decides.  All the outcomes some order produces.
believes(M, agent, prop, w) ==
    LET outs == {holds(M, prop, v) : v \in successors(M, agent, w)}
        stops == {o \in outs : ~o.ok \/ ~o.val}
    IN IF stops = {} THEN {[ok |-> TRUE, val |-> TRUE]} ELSE stops

\* believes_believes that looks one step ahead only
believes_believes_one_step(M, agent, prop, w) == believes(M, agent, prop, w)

\* believes_believes (epistemic.py 35-39): every successor v contributes an
\* outcome of believes at v; the first that raises or fails decides.
believes_believes(M, agent, prop, w) ==
    LET outs == UNION {believes(M, agent, prop, v) : v \in successors(M, agent, w)}
        stops == {o \in outs : ~o.ok \/ ~o.val}
        passing == \A v \in successors(M, agent, w) :
                      \E o \in believes(M, agent, prop, v) : o.ok /\ o.val
    IN stops \cup (IF passing THEN {[ok |-> TRUE, val |-> TRUE]} ELSE {})

\* label.get(node, set()) and graph.get(u, [])
LabelGet(label, node) == IF node \in DOMAIN label THEN label[node] ELSE {}
GraphGet(graph, u) == IF u \in DOMAIN graph.adj THEN graph.adj[u] ELSE <<>>

\* ------------------------------------------------------------------------
\* Inputs
\* ------------------------------------------------------------------------
MaxEvidence == 2             \* evidence items per claim
MaxNow == 2                  \* evaluation times are days 1 .. MaxNow

Nows == 1 .. MaxNow

Quarter == PScale \div 4
Half == PScale \div 2

EvidenceIds == [i \in 1 .. 4 |-> <<"e1", "e2", "e3", "e4">>[i]]

\* An EvidenceItem without its id.  lr_pos >= 1 and lr_neg in (0,1] are what
\* models.py validates; weight >= 0 admits inf; the objects are not frozen
\* (models.py 37), so an lr of 0 can be assigned after construction.
LongAgo == 20                \* days before day 0 of the oldest observation
RegularEvidence ==
    [observed_at : {0, MaxNow}, supports : BOOLEAN, lr_pos : {<<4, 1>>},
     lr_neg : {<<1, 4>>}, weight : {1}, halflife_days : {None}]
SpecialEvidence ==
    { [observed_at |-> 0, supports |-> TRUE, lr_pos |-> <<4, 1>>,
       lr_neg |-> <<1, 4>>, weight |-> 1, halflife_days |-> 1],      \* decaying
      [observed_at |-> 0, supports |-> TRUE, lr_pos |-> <<4, 1>>,
       lr_neg |-> <<1, 4>>, weight |-> 0, halflife_days |-> None],   \* weight 0
      [observed_at |-> 0, supports |-> TRUE, lr_pos |-> <<4, 1>>,
       lr_neg |-> <<1, 4>>, weight |-> 6, halflife_days |-> None],   \* strong
      [observed_at |-> 0, supports |-> TRUE, lr_pos |-> <<1, 1>>,
       lr_neg |-> <<1, 1>>, weight |-> PInf, halflife_days |-> None],\* 0 * inf
      [observed_at |-> 0, supports |-> FALSE, lr_pos |-> <<1, 1>>,
       lr_neg |-> <<0, 1>>, weight |-> 1, halflife_days |-> None],   \* log(0)
      [observed_at |-> 0, supports |-> TRUE, lr_pos |-> <<4, 1>>,
       lr_neg |-> <<1, 4>>, weight |-> 0, halflife_days |-> 1],      \* decaying 0
      [observed_at |-> MaxNow, supports |-> FALSE, lr_pos |-> <<4, 1>>,
       lr_neg |-> <<1, 4>>, weight |-> 1, halflife_days |-> 1],      \* not yet old
      [observed_at |-> 0 - LongAgo, supports |-> TRUE, lr_pos |-> <<4, 1>>,
       lr_neg |-> <<1, 4>>, weight |-> 1, halflife_days |-> 1] }     \* very old
EvidenceShapes == RegularEvidence \cup SpecialEvidence

WithId(shape, i) ==
    [id |-> EvidenceIds[i], observed_at |-> shape.observed_at,
     supports |-> shape.supports, lr_pos |-> shape.lr_pos, lr_neg |-> shape.lr_neg,
     weight |-> shape.weight, halflife_days |-> shape.halflife_days]

\* The evidence list of n items f[1] .. f[n]; item i has id EvidenceIds[i].
MkEvidence(n, f) == [i \in 1 .. n |-> WithId(f[i], i)]

\* (threshold_conditional, threshold_blocking): two valid pairs, and two
\* pairs only an assignment after construction can produce.
ThresholdPairs == {<<Quarter, Half>>, <<Half, 3 * Quarter>>,
                   <<3 * Quarter, Quarter>>, <<Half, Half>>}

MkClaim(id, prior, th, vf, vu, hl, naive, evidence, investigations) ==
    [id |-> id, prior |-> prior,
     threshold_conditional |-> th[1], threshold_blocking |-> th[2],
     valid_from |-> vf, valid_until |-> vu, staleness_halflife_days |-> hl,
     naive |-> naive, evidence |-> evidence, investigations |-> investigations]

Priors == {0, Quarter, Half}                 \* 0 is not a valid prior
Staleness == {<<None, None>>, <<0, 1>>}      \* (valid_from, staleness_halflife_days)

\* More of them: a claim valid since long ago, one valid from the latest
\* now on, a half-life of two days, and either field unset.
AgedStaleness == {<<0 - LongAgo, 1>>, <<MaxNow, 1>>, <<0, 2>>, <<0, None>>, <<None, 1>>}

\* Investigations.  models.py validates expected_lr_support >= 1,
\* expected_lr_refute in (0,1], cost_hours > 0, probability_support in [0,1].
MaxClaims == 2               \* claims per note
MaxInvestigations == 2       \* investigations per claim

MkInv(id, lrs, cost, ps) ==
    [id |-> id, expected_lr_support |-> lrs[1], expected_lr_refute |-> lrs[2],
     cost_hours |-> cost, probability_support |-> ps]

Informative == << <<4, 1>>, <<1, 4>> >>
InvestigationIds == [i \in 1 .. 4 |-> <<"i1", "i2", "i3", "i4">>[i]]

\* cost_hours of the i-th of n investigations: all one hour, or rising
CostPatterns == {"same", "rising"}
CostOf(pattern, i, n) ==
    CASE pattern = "same" -> 1
      [] pattern = "rising" -> i

\* Investigation lists: ids in ascending or in descending order of
\* declaration, under each pattern of costs.
InvestigationLists ==
    UNION { { [i \in 1 .. n |->
                 MkInv(InvestigationIds[IF asc THEN i ELSE n + 1 - i],
                       Informative, CostOf(pattern, i, n), Quarter)] :
              pattern \in CostPatterns, asc \in BOOLEAN }
            : n \in 0 .. MaxInvestigations }

\* Investigations the recommendation loop skips: probability_support of 0
\* and of 1, likelihood ratios of 1 (no expected change), and a cost of 0
\* hours, which only an assignment after construction can produce
\* (models.py 84: frozen=False).
SkippedInvestigations ==
    { MkInv("i1", Informative, 1, 0),
      MkInv("i1", Informative, 1, PScale),
      MkInv("i1", << <<1, 1>>, <<1, 1>> >>, 1, Quarter),
      MkInv("i1", Informative, 0, Quarter) }

StrongEvidence ==
    [id |-> "e1", observed_at |-> 0, supports |-> TRUE, lr_pos |-> <<4, 1>>,
     lr_neg |-> <<1, 4>>, weight |-> 6, halflife_days |-> None]

\* Two items declared latest first
UnsortedEvidence ==
    << [id |-> "e1", observed_at |-> 1, supports |-> TRUE, lr_pos |-> <<4, 1>>,
        lr_neg |-> <<1, 4>>, weight |-> 1, halflife_days |-> None],
       [id |-> "e2", observed_at |-> 0, supports |-> FALSE, lr_pos |-> <<4, 1>>,
        lr_neg |-> <<1, 4>>, weight |-> 1, halflife_days |-> None] >>

\* Claims of a note, before their ids are assigned.
\*  - claims that are acceptable (prior 1/4), conditional (prior 1/2) or
\*    blocking with a posterior of exactly 1 (strong evidence), with or
\*    without an expiry date and with or without one investigation;
\*  - claims with an invalid prior of 0, with or without an expiry date;
\*  - claims whose datetimes are offset-naive: one with an expiry date, one
\*    with a valid_from date and a staleness half-life;
\*  - claims with every list of investigations;
\*  - claims with an investigation that is skipped, before one that is not.
NoteClaims ==
    { MkClaim("", Quarter, <<Half, 3 * Quarter>>, None, vu, None, FALSE, evidence, invs) :
        vu \in {None, 1}, evidence \in {<<>>, <<StrongEvidence>>},
        invs \in {<<>>, <<MkInv("i1", Informative, 1, Quarter)>>} }
    \cup { MkClaim("", Half, <<Half, 3 * Quarter>>, None, vu, None, FALSE, <<>>, invs) :
             vu \in {None, 1}, invs \in {<<>>, <<MkInv("i1", Informative, 1, Quarter)>>} }
    \cup { MkClaim("", 0, <<Half, 3 * Quarter>>, None, vu, None, FALSE, <<>>, <<>>) :
             vu \in {None, 1} }
    \cup { MkClaim("", Half, <<Half, 3 * Quarter>>, None, 1, None, TRUE, <<>>, <<>>),
           MkClaim("", Half, <<Half, 3 * Quarter>>, 0, None, 1, TRUE, <<>>, <<>>) }
    \cup { MkClaim("", Half, <<Half, 3 * Quarter>>, None, None, None, FALSE, <<>>, invs) :
             invs \in InvestigationLists }
    \cup { MkClaim("", Half, <<Half, 3 * Quarter>>, None, None, None, FALSE, <<>>,
                   <<inv, MkInv("i2", Informative, 1, Quarter)>>) :
             inv \in SkippedInvestigations }

ClaimIds == [i \in 1 .. 4 |-> <<"c1", "c2", "c3", "c4">>[i]]

\* The ids of the n claims of a note: in ascending or descending order of
\* declaration, or all the same (nothing makes claim ids unique).
IdOf(order, i, n) ==
    CASE order = "asc" -> ClaimIds[i]
      [] order = "desc" -> ClaimIds[n + 1 - i]
      [] order = "dup" -> ClaimIds[1]

IdOrders == {"asc", "desc", "dup"}

\* The note of n claims f[1] .. f[n] with their ids assigned
MkNote(n, f, order) == [i \in 1 .. n |-> [f[i] EXCEPT !.id = IdOf(order, i, n)]]

\* Risk-note files of a directory: the resource_estimate and evoi_score of
\* their next_investigation.  "PTH" is a duration without a number.
MaxFiles == 3                \* files in the directory

Estimates == { <<"P", "T", "0", "H">>, <<"P", "T", "1", "H">>,
               <<"P", "T", "9", "0", "M">>, <<"P", "T", "H">> }
Scores == {1, 3}
Budgets == { <<"P", "T", "0", "H">>, <<"P", "T", "1", "H">>,
             <<"P", "T", "2", "H">>, <<"P", "T", "4", "0", "H">> }
Paths == [i \in 1 .. 4 |-> <<"a.yaml", "b.yaml", "c.yaml", "d.yaml">>[i]]

MkFile(i, estimate, score) ==
    [path |-> Paths[i], resource_estimate |-> estimate, evoi_score |-> score]

\* Assurance-case documents: a belief model and one claim over it.
MaxEdges == 2                \* edges of the belief model

MkWorld(id, facts) == [id |-> id, facts |-> facts]
MkEdge(agent, frm, to) == [agent |-> agent, frm |-> frm, to |-> to]

\* World lists: none, one, two in either order, two of the same id, three
WorldLists ==
    { <<>>,
      <<MkWorld("A", {"p"})>>,
      <<MkWorld("A", {"p"}), MkWorld("B", {"q"})>>,
      <<MkWorld("A", {"p"}), MkWorld("B", {})>>,
      <<MkWorld("B", {"q"}), MkWorld("A", {"p"})>>,
      <<MkWorld("A", {"p", "q"}), MkWorld("B", {"p"})>>,
      <<MkWorld("A", {"p"}), MkWorld("A", {"q"})>>,
      <<MkWorld("A", {}), MkWorld("B", {"p"}), MkWorld("C", {"q"})>> }

\* Agents "a" and "c" are declared, "b" is not; world "X" is never declared
Agents == <<"a", "c">>
EdgeShapes ==
    { MkEdge("a", "A", "B"), MkEdge("a", "B", "A"), MkEdge("a", "A", "A"),
      MkEdge("a", "B", "C"), MkEdge("a", "A", "X"), MkEdge("a", "X", "B"),
      MkEdge("b", "A", "B") }

\* Claims: G(p) -> F(q) over p, q and the proposition r that is a fact of
\* no world; B and BB for agents a and b over p and r
TemporalClaims ==
    { [type |-> "temporal", p |-> pq[1], q |-> pq[2]] :
        pq \in {<<"p", "q">>, <<"q", "p">>, <<"p", "r">>} }
EpistemicClaims ==
    [type : {"epistemic"}, op : {"B", "BB"}, agent : {"a", "b"}, prop : {"p", "r"}]

\* ------------------------------------------------------------------------
\* State
\* ------------------------------------------------------------------------
VARIABLES
    c_claim,      \* evaluate_claim: the claim argument
    c_now,        \* evaluate_claim: the now argument
    c_pc,         \* "call", "returned" or "raised"
    c_ret         \* the ClaimResult returned or the EvaluationError raised

VARIABLES
    note,             \* evaluate_note: the claims of the note argument
    now,              \* evaluate_note: the evaluation time, fixed for the pass
    pc,               \* "claims", "rollup", "recommend", "sort", "returned", "raised"
    claim_results,    \* the ClaimResults collected so far
    printed,          \* the warning lines printed so far
    overall_posture,
    recommendations,
    ret               \* the NoteEvaluationResult returned, or the exception

VARIABLES
    p_budget,         \* prioritize_cmd: args.budget, as its characters
    p_files,          \* prioritize_cmd: the files of args.dir, in glob order
    p_pc,             \* "start", "select", "report", "done"
    budget_hours,
    items,            \* the ranked candidates
    p_next,           \* index in items of the next candidate of the loop
    total,
    selected

VARIABLES
    belief_model,     \* evaluate_claims: doc["belief_model"]
    k_claim,          \* evaluate_claims: the claim c of the loop
    k_pc,             \* "build", "for", "while", "epistemic", "done", "raised"
    M, graph, label,  \* what build_kripke returns
    nodes,            \* check_G_implies_F: the nodes the for loop has left
    visited, dq,
    k_ok,             \* ok, the result of the claim, or the exception
    dequeues,         \* popleft calls of the current search
    enqueued          \* the worlds put on dq in the current search, in order

VARIABLES
    utc,              \* what _now_utc() returns at this moment
    c_ret2            \* what a second evaluate_claim call with the same arguments returned

VARIABLES
    t_triage,         \* rn["triage"]: severity, exploitability, reversibility, posture
    t_gate,           \* gate-check: args.posture
    t_pc,             \* "start", "done"
    t_out             \* the function called, the posture it returned, the exit code

VARIABLES
    r_valid,          \* run: the file loads and validates as a RiskNote
    exit_code         \* run: the exit code of the process, None while it runs

triageVars == <<t_triage, t_gate, t_pc, t_out>>
runVars == <<r_valid, exit_code>>
extVars == <<utc, c_ret2, triageVars, runVars>>
kripkeVars == <<belief_model, k_claim, k_pc, M, graph, label, nodes, visited, dq, k_ok,
                dequeues, enqueued>>
prioVars == <<p_budget, p_files, p_pc, budget_hours, items, p_next, total, selected>>
claimVars == <<c_claim, c_now, c_pc, c_ret>>
noteVars == <<note, now, pc, claim_results, printed, overall_posture,
              recommendations, ret>>
vars == <<claimVars, noteVars, prioVars, kripkeVars, extVars>>

NoValue == [ok |-> FALSE, exc |-> "none"]

\* ------------------------------------------------------------------------
\* evaluate_claim as an operation
\* ------------------------------------------------------------------------
NoteIdle ==
    /\ note = <<>>
    /\ now = 1
    /\ pc = "idle"
    /\ claim_results = <<>>
    /\ printed = <<>>
    /\ overall_posture = "ACCEPTABLE"
    /\ recommendations = <<>>
    /\ ret = NoValue

KripkeIdle ==
    /\ belief_model = [agents |-> Agents, worlds |-> <<>>, edges |-> <<>>]
    /\ k_claim = [type |-> "temporal", p |-> "p", q |-> "q"]
    /\ k_pc = "idle"
    /\ M = build_kripke(belief_model).M
    /\ graph = build_kripke(belief_model).graph
    /\ label = build_kripke(belief_model).label
    /\ nodes = <<>>
    /\ visited = {}
    /\ dq = <<>>
    /\ k_ok = NoValue
    /\ dequeues = 0
    /\ enqueued = <<>>

PrioIdle ==
    /\ p_budget = <<"P", "T", "4", "0", "H">>
    /\ p_files = <<>>
    /\ p_pc = "idle"
    /\ budget_hours = 0
    /\ items = <<>>
    /\ p_next = 1
    /\ total = 0
    /\ selected = <<>>

TriageIdle ==
    /\ t_triage = [severity |-> 1, exploitability |-> 1, reversibility |-> 4,
                   posture |-> "green"]
    /\ t_gate = "amber"
    /\ t_pc = "idle"
    /\ t_out = [fn |-> "none", posture |-> "none", exit |-> 0]

RunIdle ==
    /\ r_valid = TRUE
    /\ exit_code = None

ExtIdle ==
    /\ utc = 1
    /\ c_ret2 = NoValue
    /\ TriageIdle
    /\ RunIdle

ClaimIdle ==
    /\ c_claim = MkClaim("c1", Half, <<Quarter, Half>>, None, None, None, FALSE, <<>>, <<>>)
    /\ c_now = 1
    /\ c_pc = "idle"
    /\ c_ret = NoValue

InitClaim ==
    /\ \/ \E n \in 0 .. MaxEvidence :
            \E f \in [1 .. n -> EvidenceShapes], prior \in Priors, th \in ThresholdPairs,
               vu \in {None, 1}, st \in Staleness, naive \in BOOLEAN :
               c_claim = MkClaim("c1", prior, th, st[1], vu, st[2], naive,
                                 MkEvidence(n, f), <<>>)
       \/ \E n \in 0 .. 1 :
            \E f \in [1 .. n -> RegularEvidence], prior \in {Quarter, Half, 3 * Quarter},
               st \in AgedStaleness :
               c_claim = MkClaim("c1", prior, <<Quarter, Half>>, st[1], None, st[2], FALSE,
                                 MkEvidence(n, f), <<>>)
    /\ c_now \in Nows
    /\ c_pc = "call"
    /\ c_ret = NoValue
    /\ NoteIdle
    /\ PrioIdle
    /\ KripkeIdle
    /\ ExtIdle

EvaluateClaimReturn ==
    /\ c_pc = "call"
    /\ LET r == evaluate_claim(c_claim, c_now)
       IN /\ r.ok
          /\ c_ret' = r.val
    /\ c_claim' = ClaimAfterEvaluate(c_claim)
    /\ c_pc' = "returned"
    /\ UNCHANGED <<c_now, noteVars, prioVars, kripkeVars, extVars>>

EvaluateClaimRaise ==
    /\ c_pc = "call"
    /\ LET r == evaluate_claim(c_claim, c_now)
       IN /\ ~r.ok
          /\ c_ret' = r
    /\ c_claim' = ClaimAfterEvaluate(c_claim)
    /\ c_pc' = "raised"
    /\ UNCHANGED <<c_now, noteVars, prioVars, kripkeVars, extVars>>

NextClaim == EvaluateClaimReturn \/ EvaluateClaimRaise

SpecClaim == InitClaim /\ [][NextClaim]_vars

\* ------------------------------------------------------------------------
\* Constructing a Claim, then evaluating it
\* ------------------------------------------------------------------------
\* A pydantic ValidationError; names are the fields that failed.
ValidationError(text, names) ==
    [ok |-> FALSE, exc |-> "ValidationError", text |-> text, names |-> names]

\* Field(..., gt=0.0, lt=1.0)
FieldInRange(v) == 0 < v /\ v < PScale

\* The fields of the constructor arguments that fail their Field constraint.
ClaimFieldErrors(kwargs) ==
    {f \in {"prior", "threshold_conditional", "threshold_blocking"} :
        ~FieldInRange(kwargs[f])}
    \cup (IF kwargs.staleness_halflife_days # None /\ ~(kwargs.staleness_halflife_days > 0)
          THEN {"staleness_halflife_days"} ELSE {})

\* The model validator, run after the fields validated; its ValueError is
\* reported as a ValidationError.
_check_thresholds_and_times(self) ==
    IF ~(self.threshold_conditional < self.threshold_blocking)
    THEN ValidationError("threshold_conditional must be < threshold_blocking", {})
    ELSE IF self.valid_from # None /\ self.valid_until # None
            /\ ~(self.valid_from < self.valid_until)
    THEN ValidationError("valid_from must be earlier than valid_until", {})
    ELSE [ok |-> TRUE, val |-> self]

\* Claim(**kwargs)
Claim(kwargs) ==
    IF ClaimFieldErrors(kwargs) # {}
    THEN ValidationError("field constraint", ClaimFieldErrors(kwargs))
    ELSE _check_thresholds_and_times(kwargs)

\* Threshold values a caller passes to the constructor or assigns later.
ThresholdValues == {0, Quarter, Half, 3 * Quarter, PScale}

InitConstruct ==
    /\ \E n \in 0 .. 1 :
         \E f \in [1 .. n -> RegularEvidence], prior \in {0, Quarter},
            tc \in ThresholdValues, tb \in ThresholdValues,
            vf \in {None, 0, 1}, vu \in {None, 1} :
            c_claim = MkClaim("c1", prior, <<tc, tb>>, vf, vu, None, FALSE,
                              MkEvidence(n, f), <<>>)
    /\ c_now \in Nows
    /\ c_pc = "construct"
    /\ c_ret = NoValue
    /\ NoteIdle
    /\ PrioIdle
    /\ KripkeIdle
    /\ ExtIdle

ConstructClaim ==
    /\ c_pc = "construct"
    /\ Claim(c_claim).ok
    /\ c_claim' = Claim(c_claim).val
    /\ c_pc' = "constructed"
    /\ UNCHANGED <<c_now, c_ret, noteVars, prioVars, kripkeVars, extVars>>

ConstructRaise ==
    /\ c_pc = "construct"
    /\ ~Claim(c_claim).ok
    /\ c_ret' = Claim(c_claim)
    /\ c_pc' = "rejected"
    /\ UNCHANGED <<c_claim, c_now, noteVars, prioVars, kripkeVars, extVars>>

\* claim.threshold_... = v on a constructed Claim: the model is not frozen
\* and does not validate assignments, the value is stored as given.
AssignThreshold ==
    /\ c_pc = "constructed"
    /\ \E f \in {"threshold_conditional", "threshold_blocking"}, v \in ThresholdValues :
          /\ c_claim[f] # v
          /\ c_claim' = [c_claim EXCEPT ![f] = v]
    /\ UNCHANGED <<c_now, c_pc, c_ret, noteVars, prioVars, kripkeVars, extVars>>

\* the caller passes the Claim to evaluate_claim
CallEvaluateClaim ==
    /\ c_pc = "constructed"
    /\ c_pc' = "call"
    /\ UNCHANGED <<c_claim, c_now, c_ret, noteVars, prioVars, kripkeVars, extVars>>

NextConstruct ==
    \/ ConstructClaim
    \/ ConstructRaise
    \/ AssignThreshold
    \/ CallEvaluateClaim
    \/ EvaluateClaimReturn
    \/ EvaluateClaimRaise

SpecConstruct == InitConstruct /\ [][NextConstruct]_vars

\* ------------------------------------------------------------------------
\* Two evaluate_claim calls with the same arguments
\* ------------------------------------------------------------------------
\* evaluate_claim reading the clock whatever `now` it was given
evaluate_claim_utc(claim, at, clock) == evaluate_claim(claim, clock)

\* evaluate_claim with its optional argument: now = now or _now_utc()
evaluate_claim_now(claim, at, clock) ==
    evaluate_claim(claim, IF at = None THEN clock ELSE at)

InitTwice ==
    /\ \E n \in 0 .. MaxEvidence :
         \E f \in [1 .. n -> SpecialEvidence], vu \in {None, 1}, st \in Staleness :
            c_claim = MkClaim("c1", Quarter, <<Quarter, Half>>, st[1], vu, st[2], FALSE,
                              MkEvidence(n, f), <<>>)
    /\ c_now \in Nows \cup {None}
    /\ c_pc = "call"
    /\ c_ret = NoValue
    /\ utc = 1
    /\ c_ret2 = NoValue
    /\ TriageIdle
    /\ RunIdle
    /\ NoteIdle
    /\ PrioIdle
    /\ KripkeIdle

FirstCall ==
    /\ c_pc = "call"
    /\ c_ret' = evaluate_claim_now(c_claim, c_now, utc)
    /\ c_claim' = ClaimAfterEvaluate(c_claim)
    /\ c_pc' = "between"
    /\ UNCHANGED <<c_now, utc, c_ret2, triageVars, runVars, noteVars, prioVars, kripkeVars>>

\* time passes between the two calls
ClockTick ==
    /\ c_pc = "between"
    /\ utc < MaxNow
    /\ utc' = utc + 1
    /\ UNCHANGED <<claimVars, c_ret2, triageVars, runVars, noteVars, prioVars, kripkeVars>>

SecondCall ==
    /\ c_pc = "between"
    /\ c_ret2' = evaluate_claim_now(c_claim, c_now, utc)
    /\ c_claim' = ClaimAfterEvaluate(c_claim)
    /\ c_pc' = "twice"
    /\ UNCHANGED <<c_now, c_ret, utc, triageVars, runVars, noteVars, prioVars, kripkeVars>>

NextTwice == FirstCall \/ ClockTick \/ SecondCall

SpecTwice == InitTwice /\ [][NextTwice]_vars

\* ------------------------------------------------------------------------
\* Triage posture and the release gate (calculate_posture.py, safety_protocol.py)
\* ------------------------------------------------------------------------
MaxLevel == 5                \* largest severity, exploitability, reversibility

\* risk_score >= t for risk_score = (sev * exp) / max(rev, 1e-9) and an
\* integer t >= 1: with rev < 1 the divisor is 1e-9
RiskScoreAtLeast(sev, exp, rev, t) ==
    IF rev >= 1 THEN sev * exp >= t * rev ELSE sev * exp >= 1

\* The plain risk matrix, calculate_posture.py 10-16
RiskMatrix(sev, exp, rev) ==
    IF RiskScoreAtLeast(sev, exp, rev, 4) THEN "red"
    ELSE IF RiskScoreAtLeast(sev, exp, rev, 2) THEN "amber"
    ELSE "green"

\* calculate_posture without its dominance rule
calculate_posture_matrix(severity, exploitability, reversibility) ==
    RiskMatrix(severity, exploitability, reversibility)

\* src/calculate_posture.py
calculate_posture(severity, exploitability, reversibility) ==
    IF (severity >= 4 \/ reversibility <= 2) /\ exploitability >= 3 THEN "red"
    ELSE IF (severity >= 4 \/ reversibility <= 2) /\ exploitability >= 2 THEN "amber"
    ELSE RiskMatrix(severity, exploitability, reversibility)

\* safety_protocol.py 53-65
calc_posture(sev, exp, rev) ==
    IF (sev >= 4 \/ rev <= 2) /\ exp >= 3 THEN "red"
    ELSE IF (sev >= 4 \/ rev <= 2) /\ exp >= 2 THEN "amber"
    ELSE RiskMatrix(sev, exp, rev)

\* src/src/calculate_posture.py, whose second parameter is named probability
src_calculate_posture(severity, probability, reversibility) ==
    IF severity >= 4 \/ reversibility <= 2 THEN "red"
    ELSE IF severity >= 2 /\ probability >= 2 THEN "amber"
    ELSE "green"

\* gate_check_cmd that denies a red posture only
gate_check_cmd_red_only(posture, required) ==
    IF posture = "red" THEN 4 ELSE 0

\* gate_check_cmd: the exit code of the process, 4 from sys.exit(4) and 0
\* when the function returns
gate_check_cmd(posture, required) ==
    IF posture = "red" THEN 4
    ELSE IF required = "green" /\ posture # "green" THEN 4
    ELSE 0

Levels == -1 .. MaxLevel
TriagePostures == {"red", "amber", "green", "unknown"}   \* the file may hold any string
Gates == {"amber", "green"}                              \* argparse choices

InitTriage ==
    /\ t_triage \in [severity : Levels, exploitability : Levels, reversibility : Levels,
                     posture : TriagePostures]
    /\ t_gate \in Gates
    /\ t_pc = "start"
    /\ t_out = [fn |-> "none", posture |-> "none", exit |-> 0]
    /\ utc = 1
    /\ c_ret2 = NoValue
    /\ RunIdle
    /\ ClaimIdle
    /\ NoteIdle
    /\ PrioIdle
    /\ KripkeIdle

TriageFrame == UNCHANGED <<t_triage, t_gate, utc, c_ret2, runVars, claimVars, noteVars, prioVars,
                           kripkeVars>>

CalculatePosture ==
    /\ t_pc = "start"
    /\ t_out' = [fn |-> "calculate_posture",
                 posture |-> calculate_posture(t_triage.severity, t_triage.exploitability,
                                               t_triage.reversibility),
                 exit |-> 0]
    /\ t_pc' = "done"
    /\ TriageFrame

SrcCalculatePosture ==
    /\ t_pc = "start"
    /\ t_out' = [fn |-> "src_calculate_posture",
                 posture |-> src_calculate_posture(t_triage.severity,
                                                   t_triage.exploitability,
                                                   t_triage.reversibility),
                 exit |-> 0]
    /\ t_pc' = "done"
    /\ TriageFrame

\* generate_assurance_case_cmd, safety_protocol.py 77
CalcPosture ==
    /\ t_pc = "start"
    /\ t_out' = [fn |-> "calc_posture",
                 posture |-> calc_posture(t_triage.severity, t_triage.exploitability,
                                          t_triage.reversibility),
                 exit |-> 0]
    /\ t_pc' = "done"
    /\ TriageFrame

\* gate_check_cmd leaving through sys.exit(4)
GateCheckBlock ==
    /\ t_pc = "start"
    /\ gate_check_cmd(t_triage.posture, t_gate) = 4
    /\ t_out' = [fn |-> "gate_check_cmd", posture |-> t_triage.posture, exit |-> 4]
    /\ t_pc' = "done"
    /\ TriageFrame

\* gate_check_cmd printing PASS and returning
GateCheckPass ==
    /\ t_pc = "start"
    /\ gate_check_cmd(t_triage.posture, t_gate) = 0
    /\ t_out' = [fn |-> "gate_check_cmd", posture |-> t_triage.posture, exit |-> 0]
    /\ t_pc' = "done"
    /\ TriageFrame

NextTriage ==
    \/ CalculatePosture
    \/ SrcCalculatePosture
    \/ CalcPosture
    \/ GateCheckBlock
    \/ GateCheckPass

SpecTriage == InitTriage /\ [][NextTriage]_vars

\* ------------------------------------------------------------------------
\* evaluate_note as an operation
\* ------------------------------------------------------------------------
Init ==
    /\ \E n \in 0 .. MaxClaims :
         \E f \in [1 .. n -> NoteClaims], order \in IdOrders :
            note = MkNote(n, f, order)
    /\ now \in Nows
    /\ pc = "claims"
    /\ claim_results = <<>>
    /\ printed = <<>>
    /\ overall_posture = "ACCEPTABLE"
    /\ recommendations = <<>>
    /\ ret = NoValue
    /\ ClaimIdle
    /\ PrioIdle
    /\ KripkeIdle
    /\ ExtIdle

\* eval.py 354-363
EvaluateClaims ==
    /\ pc = "claims"
    /\ LET r == EvaluateAllClaims(note, now, <<>>, <<>>)
       IN /\ claim_results' = r.claim_results
          /\ printed' = r.printed
    /\ note' = NoteAfterEvaluate(note)
    /\ pc' = "rollup"
    /\ UNCHANGED <<now, overall_posture, recommendations, ret, claimVars, prioVars, kripkeVars, extVars>>

\* eval.py 365-377
Rollup ==
    /\ pc = "rollup"
    /\ overall_posture' = OverallPosture(claim_results)
    /\ pc' = "recommend"
    /\ UNCHANGED <<note, now, claim_results, printed, recommendations, ret, claimVars, prioVars, kripkeVars, extVars>>

\* eval.py 380-430, the loop runs to its end
RecommendAll ==
    /\ pc = "recommend"
    /\ LET r == Recommend(note, claim_results, <<>>)
       IN /\ r.ok
          /\ recommendations' = r.val
    /\ pc' = "sort"
    /\ UNCHANGED <<note, now, claim_results, printed, overall_posture, ret, claimVars, prioVars, kripkeVars, extVars>>

\* eval.py 393: the ValueError of _prob_to_logodds leaves evaluate_note
RecommendRaise ==
    /\ pc = "recommend"
    /\ LET r == Recommend(note, claim_results, <<>>)
       IN /\ ~r.ok
          /\ ret' = r
    /\ pc' = "raised"
    /\ UNCHANGED <<note, now, claim_results, printed, overall_posture,
                   recommendations, claimVars, prioVars, kripkeVars, extVars>>

\* eval.py 432-442
SortAndReturn ==
    /\ pc = "sort"
    /\ recommendations' = SortedByDeltaPerHourDesc(recommendations)
    /\ ret' = [ok |-> TRUE,
               evaluated_at |-> now,
               overall_posture |-> overall_posture,
               claims |-> claim_results,
               recommendations |-> recommendations']
    /\ pc' = "returned"
    /\ UNCHANGED <<note, now, claim_results, printed, overall_posture, claimVars, prioVars, kripkeVars, extVars>>

Next == EvaluateClaims \/ Rollup \/ RecommendAll \/ RecommendRaise \/ SortAndReturn

Spec == Init /\ [][Next]_vars

\* ------------------------------------------------------------------------
\* The run command (cli.py 336-466)
\* ------------------------------------------------------------------------
\* typer.Exit(code), an exception
typer_Exit(code) == [exc |-> "Exit", code |-> code]

\* The handler `except Exception as e` that encloses the whole body of run
\* (cli.py 460-466).  typer.Exit is click's Exit, a RuntimeError, so the
\* handler catches it like any other exception; it ends with
\* raise typer.Exit(1) from e.
run_except_Exception(e) == typer_Exit(1)

\* The exit code of the process when the body of run raises e
ExitCodeOnRaise(e) == run_except_Exception(e).code

\* Claims of the notes given to run: acceptable, conditional, blocking,
\* expired, one that fails evaluation, a conditional and a blocking one with
\* an investigation, and one whose evidence list is not in chronological order.
RunClaims ==
    { MkClaim("", Quarter, <<Half, 3 * Quarter>>, None, None, None, FALSE, <<>>, <<>>),
      MkClaim("", Half, <<Half, 3 * Quarter>>, None, None, None, FALSE, <<>>, <<>>),
      MkClaim("", Quarter, <<Half, 3 * Quarter>>, None, None, None, FALSE,
              <<StrongEvidence>>, <<>>),
      MkClaim("", Half, <<Half, 3 * Quarter>>, None, 1, None, FALSE, <<>>, <<>>),
      MkClaim("", Half, <<Half, 3 * Quarter>>, None, 1, None, TRUE, <<>>, <<>>),
      MkClaim("", Half, <<Half, 3 * Quarter>>, None, None, None, FALSE, <<>>,
              <<MkInv("i1", Informative, 1, Quarter)>>),
      MkClaim("", Quarter, <<Half, 3 * Quarter>>, None, None, None, FALSE,
              <<StrongEvidence>>, <<MkInv("i1", Informative, 1, Quarter)>>),
      MkClaim("", Quarter, <<Half, 3 * Quarter>>, None, None, None, FALSE,
              UnsortedEvidence, <<MkInv("i1", Informative, 1, Quarter)>>) }

InitRun ==
    /\ \E n \in 0 .. MaxClaims :
         \E f \in [1 .. n -> RunClaims] :
            note = MkNote(n, f, "asc")
    /\ now \in Nows
    /\ r_valid \in BOOLEAN
    /\ exit_code = None
    /\ pc = "load"
    /\ claim_results = <<>>
    /\ printed = <<>>
    /\ overall_posture = "ACCEPTABLE"
    /\ recommendations = <<>>
    /\ ret = NoValue
    /\ utc = 1
    /\ c_ret2 = NoValue
    /\ TriageIdle
    /\ ClaimIdle
    /\ PrioIdle
    /\ KripkeIdle

RunFrame == UNCHANGED <<note, now, claim_results, printed, overall_posture,
                        recommendations, ret, r_valid, utc, c_ret2, triageVars,
                        claimVars, prioVars, kripkeVars>>

\* cli.py 397-404: yaml.safe_load and RiskNote.model_validate succeed
RunLoad ==
    /\ pc = "load"
    /\ r_valid
    /\ pc' = "claims"
    /\ UNCHANGED exit_code
    /\ RunFrame

\* cli.py 402-404: they fail, raise typer.Exit(1)
RunLoadError ==
    /\ pc = "load"
    /\ ~r_valid
    /\ exit_code' = ExitCodeOnRaise(typer_Exit(1))
    /\ pc' = "exited"
    /\ RunFrame

\* cli.py 409-412, 460-466: evaluate_note raised
RunEvaluationError ==
    /\ pc = "raised"
    /\ exit_code' = ExitCodeOnRaise(ret)
    /\ pc' = "exited"
    /\ RunFrame

\* cli.py 454-458: evaluate_note returned; the exit code follows from
\* the overall posture
RunExit ==
    /\ pc = "returned"
    /\ exit_code' = IF ret.overall_posture = "BLOCKING"
                    THEN ExitCodeOnRaise(typer_Exit(3))
                    ELSE IF ret.overall_posture = "CONDITIONAL"
                    THEN ExitCodeOnRaise(typer_Exit(2))
                    ELSE 0
    /\ pc' = "exited"
    /\ RunFrame

NextRun ==
    \/ RunLoad
    \/ RunLoadError
    \/ EvaluateClaims
    \/ Rollup
    \/ RecommendAll
    \/ RecommendRaise
    \/ SortAndReturn
    \/ RunEvaluationError
    \/ RunExit

SpecRun == InitRun /\ [][NextRun]_vars

\* ------------------------------------------------------------------------
\* prioritize_cmd as an operation
\* ------------------------------------------------------------------------
InitPrio ==
    /\ p_budget \in Budgets
    /\ \E n \in 0 .. MaxFiles :
         \E e \in [1 .. n -> Estimates], sc \in [1 .. n -> Scores] :
            p_files = [i \in 1 .. n |-> MkFile(i, e[i], sc[i])]
    /\ p_pc = "start"
    /\ budget_hours = 0
    /\ items = <<>>
    /\ p_next = 1
    /\ total = 0
    /\ selected = <<>>
    /\ ClaimIdle
    /\ NoteIdle
    /\ KripkeIdle
    /\ ExtIdle

\* safety_protocol.py 81-98
CollectAndRank ==
    /\ p_pc = "start"
    /\ budget_hours' = parse_duration_to_hours(p_budget).val
    /\ items' = SortedByValueDesc(CollectItems(p_files, <<>>))
    /\ total' = 0
    /\ selected' = <<>>
    /\ p_next' = 1
    /\ p_pc' = "select"
    /\ UNCHANGED <<p_budget, p_files, claimVars, noteVars, kripkeVars, extVars>>

\* safety_protocol.py 99-102, a candidate that fits
SelectCandidate ==
    /\ p_pc = "select"
    /\ p_next <= Len(items)
    /\ Fits(total, items[p_next].hours, budget_hours)
    /\ selected' = Append(selected, items[p_next])
    /\ total' = total + items[p_next].hours
    /\ p_next' = p_next + 1
    /\ UNCHANGED <<p_budget, p_files, p_pc, budget_hours, items, claimVars, noteVars, kripkeVars, extVars>>

\* safety_protocol.py 99-100, a candidate that does not fit
PassCandidate ==
    /\ p_pc = "select"
    /\ p_next <= Len(items)
    /\ ~Fits(total, items[p_next].hours, budget_hours)
    /\ p_next' = p_next + 1
    /\ UNCHANGED <<p_budget, p_files, p_pc, budget_hours, items, total, selected,
                   claimVars, noteVars, kripkeVars, extVars>>

\* safety_protocol.py 103-107
Report ==
    /\ p_pc = "select"
    /\ p_next > Len(items)
    /\ p_pc' = "done"
    /\ UNCHANGED <<p_budget, p_files, budget_hours, items, p_next, total, selected,
                   claimVars, noteVars, kripkeVars, extVars>>

NextPrio == CollectAndRank \/ SelectCandidate \/ PassCandidate \/ Report

SpecPrio == InitPrio /\ [][NextPrio]_vars

\* ------------------------------------------------------------------------
\* evaluate_claims on one claim (assurance.py 32-53), check_G_implies_F
\* step by step (epistemic.py 41-59)
\* ------------------------------------------------------------------------
InitKripke ==
    /\ \E n \in 0 .. MaxEdges : \E f \in [1 .. n -> EdgeShapes], ws \in WorldLists :
          belief_model = [agents |-> Agents, worlds |-> ws, edges |-> f]
    /\ k_claim \in TemporalClaims \cup EpistemicClaims
    /\ k_pc = "build"
    /\ M = build_kripke([agents |-> Agents, worlds |-> <<>>, edges |-> <<>>]).M
    /\ graph = build_kripke([agents |-> Agents, worlds |-> <<>>, edges |-> <<>>]).graph
    /\ label = build_kripke([agents |-> Agents, worlds |-> <<>>, edges |-> <<>>]).label
    /\ nodes = <<>>
    /\ visited = {}
    /\ dq = <<>>
    /\ k_ok = NoValue
    /\ dequeues = 0
    /\ enqueued = <<>>
    /\ ClaimIdle
    /\ NoteIdle
    /\ PrioIdle
    /\ ExtIdle

kripkeInputs == <<belief_model, k_claim, claimVars, noteVars, prioVars, extVars>>

\* assurance.py 36, and 39-41 or 45 up to the call
BuildKripke ==
    /\ k_pc = "build"
    /\ M' = build_kripke(belief_model).M
    /\ graph' = build_kripke(belief_model).graph
    /\ label' = build_kripke(belief_model).label
    /\ nodes' = graph'.keys
    /\ k_pc' = IF k_claim.type = "temporal" THEN "for" ELSE "epistemic"
    /\ UNCHANGED <<visited, dq, k_ok, dequeues, enqueued, kripkeInputs>>

\* epistemic.py 43-44: a node where p does not hold
ForSkip ==
    /\ k_pc = "for"
    /\ nodes # <<>>
    /\ k_claim.p \notin LabelGet(label, Head(nodes))
    /\ nodes' = Tail(nodes)
    /\ UNCHANGED <<k_pc, M, graph, label, visited, dq, k_ok, dequeues, enqueued,
                   kripkeInputs>>

\* epistemic.py 43-47: a node where p holds starts a search
ForStart ==
    /\ k_pc = "for"
    /\ nodes # <<>>
    /\ k_claim.p \in LabelGet(label, Head(nodes))
    /\ visited' = {Head(nodes)}
    /\ dq' = <<Head(nodes)>>
    /\ enqueued' = <<Head(nodes)>>
    /\ dequeues' = 0
    /\ nodes' = Tail(nodes)
    /\ k_pc' = "while"
    /\ UNCHANGED <<M, graph, label, k_ok, kripkeInputs>>

\* The successors of u that were not visited before u was dequeued: a
\* world listed twice is taken twice
RECURSIVE Unvisited_late(_, _)
Unvisited_late(succ, seen) ==
    IF succ = <<>> THEN <<>>
    ELSE IF Head(succ) \in seen THEN Unvisited_late(Tail(succ), seen)
    ELSE <<Head(succ)>> \o Unvisited_late(Tail(succ), seen)

\* The successors of u that are not visited yet, each once, in list order
\* (epistemic.py 53-56)
RECURSIVE Unvisited(_, _)
Unvisited(succ, seen) ==
    IF succ = <<>> THEN <<>>
    ELSE IF Head(succ) \in seen THEN Unvisited(Tail(succ), seen)
    ELSE <<Head(succ)>> \o Unvisited(Tail(succ), seen \cup {Head(succ)})

\* epistemic.py 48-52: q holds at the dequeued world; break
WhileFound ==
    /\ k_pc = "while"
    /\ dq # <<>>
    /\ k_claim.q \in LabelGet(label, Head(dq))
    /\ dq' = Tail(dq)
    /\ dequeues' = dequeues + 1
    /\ k_pc' = "for"
    /\ UNCHANGED <<M, graph, label, nodes, visited, k_ok, enqueued, kripkeInputs>>

\* epistemic.py 48-56: q does not hold at the dequeued world
WhileExpand ==
    /\ k_pc = "while"
    /\ dq # <<>>
    /\ k_claim.q \notin LabelGet(label, Head(dq))
    /\ LET new == Unvisited(GraphGet(graph, Head(dq)), visited)
       IN /\ visited' = visited \cup {new[i] : i \in 1 .. Len(new)}
          /\ dq' = Tail(dq) \o new
          /\ enqueued' = enqueued \o new
    /\ dequeues' = dequeues + 1
    /\ UNCHANGED <<k_pc, M, graph, label, nodes, k_ok, kripkeInputs>>

\* epistemic.py 57-58: the queue is empty and q was not reached
WhileExhausted ==
    /\ k_pc = "while"
    /\ dq = <<>>
    /\ k_ok' = [ok |-> TRUE, val |-> FALSE]
    /\ k_pc' = "done"
    /\ UNCHANGED <<M, graph, label, nodes, visited, dq, dequeues, enqueued, kripkeInputs>>

\* epistemic.py 59
ForEnd ==
    /\ k_pc = "for"
    /\ nodes = <<>>
    /\ k_ok' = [ok |-> TRUE, val |-> TRUE]
    /\ k_pc' = "done"
    /\ UNCHANGED <<M, graph, label, nodes, visited, dq, dequeues, enqueued, kripkeInputs>>

\* assurance.py 46-50: the outcomes of the epistemic claim; next(iter(...))
\* raises StopIteration when no world is declared
EpistemicOutcomes ==
    IF M.worlds.keys = <<>> THEN {[ok |-> FALSE, exc |-> "StopIteration"]}
    ELSE LET w0 == M.worlds.keys[1]
         IN IF k_claim.op = "B"
            THEN believes(M, k_claim.agent, k_claim.prop, w0)
            ELSE believes_believes(M, k_claim.agent, k_claim.prop, w0)

EpistemicReturn ==
    /\ k_pc = "epistemic"
    /\ \E o \in EpistemicOutcomes : o.ok /\ k_ok' = o
    /\ k_pc' = "done"
    /\ UNCHANGED <<M, graph, label, nodes, visited, dq, dequeues, enqueued, kripkeInputs>>

EpistemicRaise ==
    /\ k_pc = "epistemic"
    /\ \E o \in EpistemicOutcomes : ~o.ok /\ k_ok' = o
    /\ k_pc' = "raised"
    /\ UNCHANGED <<M, graph, label, nodes, visited, dq, dequeues, enqueued, kripkeInputs>>

NextKripke ==
    \/ BuildKripke
    \/ ForSkip \/ ForStart \/ WhileFound \/ WhileExpand \/ WhileExhausted \/ ForEnd
    \/ EpistemicReturn \/ EpistemicRaise

SpecKripke == InitKripke /\ [][NextKripke]_vars

\* ------------------------------------------------------------------------
\* Properties of evaluate_claim (checked under SpecClaim)
\* ------------------------------------------------------------------------
ValidThresholds(claim) ==
    /\ 0 < claim.threshold_conditional
    /\ claim.threshold_conditional < claim.threshold_blocking
    /\ claim.threshold_blocking < PScale

IsExpiredAt(claim, t) == claim.valid_until # None /\ t > claim.valid_until

\* C1: for a posterior in [0,1] and valid thresholds the posture is EXPIRED
\* if expired, else BLOCKING if posterior >= threshold_blocking, else
\* CONDITIONAL if posterior >= threshold_conditional, else ACCEPTABLE; the
\* classifier rejects no such input and returns no other posture.
PostureFollowsPriorityOrder ==
    /\ (c_pc = "returned" /\ ValidThresholds(c_claim)) =>
          /\ 0 <= c_ret.posterior /\ c_ret.posterior <= PScale
          /\ c_ret.posture \in Postures
          /\ c_ret.expired => c_ret.posture = "EXPIRED"
          /\ (~c_ret.expired /\ c_ret.posterior >= c_claim.threshold_blocking)
                => c_ret.posture = "BLOCKING"
          /\ (/\ ~c_ret.expired
              /\ c_ret.posterior < c_claim.threshold_blocking
              /\ c_ret.posterior >= c_claim.threshold_conditional)
                => c_ret.posture = "CONDITIONAL"
          /\ (~c_ret.expired /\ c_ret.posterior < c_claim.threshold_conditional)
                => c_ret.posture = "ACCEPTABLE"
    /\ (c_pc = "raised" /\ ValidThresholds(c_claim)) => c_ret.text # "Invalid thresholds"

\* C1 witness: a posterior exactly on the blocking threshold is BLOCKING
PostureOnBlockingThreshold ==
    /\ c_pc = "returned"
    /\ ValidThresholds(c_claim)
    /\ ~c_ret.expired
    /\ c_ret.posterior = c_claim.threshold_blocking
    /\ c_ret.posture = "BLOCKING"

\* C2: a result of evaluate_claim has posture EXPIRED exactly when
\* valid_until is set and now > valid_until, whatever the posterior, the
\* evidence and the thresholds are.
ExpiredIffPastValidUntil ==
    c_pc = "returned" =>
        /\ c_ret.expired = IsExpiredAt(c_claim, c_now)
        /\ (c_ret.posture = "EXPIRED") = IsExpiredAt(c_claim, c_now)

\* C2 witness: expired with a saturated posterior and misordered thresholds
ExpiredDespiteThresholds ==
    /\ c_pc = "returned"
    /\ IsExpiredAt(c_claim, c_now)
    /\ ~ValidThresholds(c_claim)
    /\ c_ret.posterior = PScale
    /\ c_ret.posture = "EXPIRED"

\* ------------------------------------------------------------------------
\* Properties of evaluate_note (checked under Spec)
\* ------------------------------------------------------------------------
Succeeds(claim) == evaluate_claim(claim, now).ok
Fails(claim) == ~Succeeds(claim)

\* The claims of the note that evaluate and are not expired
NonExpired == {i \in 1 .. Len(note) : Succeeds(note[i]) /\ ~IsExpiredAt(note[i], now)}

PostureOfClaim(i) == evaluate_claim(note[i], now).val.posture

\* BLOCKING > CONDITIONAL > ACCEPTABLE
Severity(p) == CASE p = "BLOCKING" -> 3 [] p = "CONDITIONAL" -> 2 [] OTHER -> 1

\* C3: when some claim evaluates and is not expired, overall_posture is the
\* most severe posture among the non-expired claim results; expired claims
\* do not influence it.
OverallIsMostSevereNonExpired ==
    (pc = "returned" /\ NonExpired # {}) =>
        /\ \E i \in NonExpired : PostureOfClaim(i) = ret.overall_posture
        /\ \A i \in NonExpired : Severity(PostureOfClaim(i)) <= Severity(ret.overall_posture)

\* C3 witness: a conditional claim declared before a blocking one, both
\* not expired
BlockingAfterConditional ==
    /\ pc = "returned"
    /\ Len(note) = 2
    /\ NonExpired = {1, 2}
    /\ PostureOfClaim(1) = "CONDITIONAL"
    /\ PostureOfClaim(2) = "BLOCKING"
    /\ ret.overall_posture = "BLOCKING"

\* C4: a note with at least one claim, all of them expired, has overall
\* posture EXPIRED.
AllExpiredRollsUpToExpired ==
    (/\ pc = "returned"
     /\ Len(note) >= 1
     /\ \A i \in 1 .. Len(note) : Succeeds(note[i]) /\ IsExpiredAt(note[i], now))
        => ret.overall_posture = "EXPIRED"

\* C5: no exception leaves evaluate_note, whatever its claims do.
NoExceptionEscapes == pc # "raised"

\* The results of the claims that evaluate, in declaration order
SuccessfulResults ==
    LET ok == SelectSeq(note, Succeeds)
    IN [i \in 1 .. Len(ok) |-> evaluate_claim(ok[i], now).val]

\* C6: the claims list holds exactly one ClaimResult per claim that
\* evaluated, in declaration order, none for a failed claim; a failed claim
\* gives no posture to the rollup and is reported apart, as one warning.
ClaimsListIsTheSuccessfulClaims ==
    pc = "returned" =>
        /\ ret.claims = SuccessfulResults
        /\ Len(ret.claims) + Len(printed) = Len(note)
        /\ Len(printed) = Len(SelectSeq(note, Fails))
        /\ ret.overall_posture \in
              {ret.claims[i].posture : i \in 1 .. Len(ret.claims)} \cup {"ACCEPTABLE"}

\* C6 witness: the first claim fails, the second one evaluates
FailedThenSuccessful ==
    /\ pc = "returned"
    /\ Len(note) = 2
    /\ Fails(note[1])
    /\ Succeeds(note[2])
    /\ Len(ret.claims) = 1
    /\ ret.claims[1].claim_id = note[2].id
    /\ Len(printed) = 1

\* C7: the warning printed for a skipped claim names the id of that claim
\* (the k-th warning belongs to the k-th failing claim).
WarningNamesTheClaim ==
    pc = "returned" =>
        LET failed == SelectSeq(note, Fails)
        IN \A k \in 1 .. Len(printed) :
              k <= Len(failed) => failed[k].id \in printed[k].names

\* C8: the recommendations of the result are in non-increasing order of
\* delta_per_hour.
RecommendationsSortedDescending ==
    pc = "returned" =>
        \A i \in 1 .. Len(ret.recommendations) - 1 :
            ret.recommendations[i].delta_per_hour
                >= ret.recommendations[i + 1].delta_per_hour

\* C8 witness: the recommendation of the claim declared second outranks
\* the one of the claim declared first
LaterClaimRankedFirst ==
    /\ pc = "returned"
    /\ Len(note) = 2
    /\ note[1].id # note[2].id
    /\ Len(ret.recommendations) = 2
    /\ ret.recommendations[1].claim_id = note[2].id
    /\ ret.recommendations[2].claim_id = note[1].id
    /\ ret.recommendations[1].delta_per_hour > ret.recommendations[2].delta_per_hour

\* Position of an id in the alphabetical order of ids
ClaimIdRank(id) == CHOOSE k \in DOMAIN ClaimIds : ClaimIds[k] = id
InvestigationIdRank(id) == CHOOSE k \in DOMAIN InvestigationIds : InvestigationIds[k] = id

LexLeq(a, b) == a[1] < b[1] \/ (a[1] = b[1] /\ a[2] <= b[2])
LexLess(a, b) == a[1] < b[1] \/ (a[1] = b[1] /\ a[2] < b[2])

Tied(i) ==
    ret.recommendations[i].delta_per_hour = ret.recommendations[i + 1].delta_per_hour

\* C9 as stated: recommendations of equal delta_per_hour are ordered by
\* claim id, then by investigation id, whatever the declaration order is.
TiesOrderedByIds ==
    pc = "returned" =>
        \A i \in 1 .. Len(ret.recommendations) - 1 :
            Tied(i) =>
                LexLeq(<<ClaimIdRank(ret.recommendations[i].claim_id),
                         InvestigationIdRank(ret.recommendations[i].investigation_id)>>,
                       <<ClaimIdRank(ret.recommendations[i + 1].claim_id),
                         InvestigationIdRank(ret.recommendations[i + 1].investigation_id)>>)

UniqueIds ==
    /\ \A i, j \in 1 .. Len(note) : note[i].id = note[j].id => i = j
    /\ \A i \in 1 .. Len(note) :
          \A a, b \in 1 .. Len(note[i].investigations) :
              note[i].investigations[a].id = note[i].investigations[b].id => a = b

\* Where a recommendation was declared: <<index of its claim in the note,
\* index of its investigation in the claim>> (for a note with unique ids)
DeclaredAt(rec) ==
    LET c == CHOOSE k \in 1 .. Len(note) : note[k].id = rec.claim_id
        v == CHOOSE k \in 1 .. Len(note[c].investigations) :
                 note[c].investigations[k].id = rec.investigation_id
    IN <<c, v>>

HasDeltaPerHour(recs, v) ==
    LET Test(r) == r.delta_per_hour = v
    IN SelectSeq(recs, Test)

\* C9 amended: recommendations of equal delta_per_hour stay in the order in
\* which the loop produced them: the declaration order of their claims in
\* the note, then the declaration order of the investigations in the claim.
TiesKeepDeclarationOrder ==
    pc = "returned" =>
        /\ \A i \in 1 .. Len(ret.recommendations) :
              LET v == ret.recommendations[i].delta_per_hour
              IN HasDeltaPerHour(ret.recommendations, v)
                   = HasDeltaPerHour(Recommend(note, claim_results, <<>>).val, v)
        /\ UniqueIds =>
              \A i \in 1 .. Len(ret.recommendations) - 1 :
                  Tied(i) => LexLess(DeclaredAt(ret.recommendations[i]),
                                     DeclaredAt(ret.recommendations[i + 1]))

\* C9 witness: two tied recommendations whose claims are declared in
\* descending order of id
TieAgainstIdOrder ==
    /\ pc = "returned"
    /\ UniqueIds
    /\ Len(note) = 2
    /\ ClaimIdRank(note[1].id) > ClaimIdRank(note[2].id)
    /\ Len(ret.recommendations) = 2
    /\ Tied(1)
    /\ ret.recommendations[1].claim_id = note[1].id
    /\ ret.recommendations[2].claim_id = note[2].id

\* ------------------------------------------------------------------------
\* Properties of prioritize_cmd (checked under SpecPrio)
\* ------------------------------------------------------------------------
RECURSIVE SumHours(_)
SumHours(sel) == IF sel = <<>> THEN 0 ELSE Head(sel).hours + SumHours(Tail(sel))

\* C10: for a budget >= 0 the summed hours of the selected candidates never
\* exceed the budget, after every step of the selection loop, candidates of
\* zero hours included.
SelectedWithinBudget ==
    p_pc \in {"select", "done"} =>
        /\ budget_hours >= 0
        /\ SumHours(selected) <= budget_hours
        /\ total = SumHours(selected)

\* C10 witness: the loop has selected a candidate of zero hours, used the
\* whole budget and passed over a candidate
BudgetUsedUpWithZeroHourCandidate ==
    /\ p_pc = "done"
    /\ \E i \in 1 .. Len(selected) : selected[i].hours = 0
    /\ \E i \in 1 .. Len(selected) : selected[i].hours > 0
    /\ Len(selected) < Len(items)
    /\ SumHours(selected) = budget_hours

\* Candidate i of the ranked list has been selected (paths are distinct)
IsSelected(i) == \E j \in 1 .. Len(selected) : selected[j].path = items[i].path

\* The position in the ranked list of the j-th selected candidate
RankOf(j) == CHOOSE i \in 1 .. Len(items) : items[i].path = selected[j].path

\* The hours of the selected candidates ranked before candidate i
RECURSIVE SelectedHoursBefore(_)
SelectedHoursBefore(i) ==
    IF i <= 1 THEN 0
    ELSE SelectedHoursBefore(i - 1)
         + (IF IsSelected(i - 1) THEN items[i - 1].hours ELSE 0)

\* C11 as stated: the selected candidates are a prefix of the ranked list;
\* once a candidate is rejected no lower-ranked candidate is selected.
SelectedIsPrefixOfRanked ==
    p_pc \in {"select", "done"} =>
        /\ Len(selected) <= Len(items)
        /\ \A j \in 1 .. Len(selected) : selected[j].path = items[j].path

\* C11 amended: the loop visits every candidate in ranked order and selects
\* exactly those that fit in what the candidates selected before them have
\* left of the budget; a candidate that does not fit is passed over and the
\* loop goes on, so the selected candidates are a subsequence of the ranked
\* list.
SelectedAreTheCandidatesThatFit ==
    p_pc \in {"select", "done"} =>
        /\ \A i \in 1 .. Len(items) :
              IsSelected(i) <=>
                  /\ i < p_next
                  /\ SelectedHoursBefore(i) + items[i].hours <= budget_hours
        /\ \A j, k \in 1 .. Len(selected) : j < k => RankOf(j) < RankOf(k)

\* C11 witness: a candidate was passed over and a lower-ranked one selected
SelectedAfterPassedOver ==
    /\ p_pc = "done"
    /\ \E i, k \in 1 .. Len(items) : i < k /\ ~IsSelected(i) /\ IsSelected(k)

\* ------------------------------------------------------------------------
\* Properties of the recommendations (checked under Spec)
\* ------------------------------------------------------------------------
PosteriorOfClaim(i) == evaluate_claim(note[i], now).val.posterior

\* expected_delta of investigation inv at the posterior p_current, scaled
\* by PScale * PScale
ExpectedDeltaAt(p_current, inv) ==
    LET lo == _prob_to_logodds(p_current).val
        p_if_support == _logodds_to_prob(FAdd(lo,
            MathLog(inv.expected_lr_support[1], inv.expected_lr_support[2])))
        p_if_refute == _logodds_to_prob(FAdd(lo,
            MathLog(inv.expected_lr_refute[1], inv.expected_lr_refute[2])))
    IN inv.probability_support * (p_if_support - p_current)
       + (PScale - inv.probability_support) * (p_if_refute - p_current)

\* 1e-6 in the unit of expected_delta, rounded up
NegligibleDelta == (PScale * PScale + DeltaEpsInv - 1) \div DeltaEpsInv

\* 0 < probability_support < 1, cost_hours > 0 and |expected_delta| >= 1e-6
\* at the posterior of the claim itself
WorthRecommending(i, k) ==
    LET inv == note[i].investigations[k]
        p_current == PosteriorOfClaim(i)
    IN /\ 0 < inv.probability_support
       /\ inv.probability_support < PScale
       /\ inv.cost_hours > 0
       /\ 0 < p_current /\ p_current < PScale
       /\ Abs(ExpectedDeltaAt(p_current, inv)) >= NegligibleDelta

\* The investigations, as (claim index, investigation index), that deserve
\* a recommendation
Deserving ==
    { ik \in (1 .. Len(note)) \X (1 .. MaxInvestigations + 1) :
        /\ Succeeds(note[ik[1]])
        /\ ik[2] <= Len(note[ik[1]].investigations)
        /\ WorthRecommending(ik[1], ik[2]) }

\* C12: once evaluate_note has ended, a recommendation has been emitted
\* for an investigation of a successfully evaluated claim exactly when
\* 0 < probability_support < 1, cost_hours > 0 and |expected_delta| >= 1e-6;
\* the other investigations are skipped and take nothing away from the rest.
RecommendedIffWorthIt ==
    pc \in {"returned", "raised"} =>
        /\ Len(recommendations) = Cardinality(Deserving)
        /\ \A ik \in Deserving :
              \E r \in 1 .. Len(recommendations) :
                 /\ recommendations[r].claim_id = note[ik[1]].id
                 /\ recommendations[r].investigation_id =
                        note[ik[1]].investigations[ik[2]].id
                 /\ recommendations[r].expected_delta =
                        ExpectedDeltaAt(PosteriorOfClaim(ik[1]),
                                        note[ik[1]].investigations[ik[2]])

\* The same statement for the notes whose claim ids are distinct and whose
\* evaluation returns
RecommendedIffWorthItOnReturn ==
    (pc = "returned" /\ UniqueIds) => RecommendedIffWorthIt

\* ------------------------------------------------------------------------
\* Properties of the temporal and epistemic checks (checked under SpecKripke)
\* ------------------------------------------------------------------------
Worlds == belief_model.worlds
Edges == belief_model.edges
DeclaredWorlds == {Worlds[i].id : i \in 1 .. Len(Worlds)}

\* prop is a fact of world w, by the last declaration of w
HoldsAt(prop, w) ==
    \E i \in 1 .. Len(Worlds) :
        /\ Worlds[i].id = w
        /\ prop \in Worlds[i].facts
        /\ \A j \in i + 1 .. Len(Worlds) : Worlds[j].id # w

\* The plain graph: all edges, whatever their agent
PlainEdges == {<<Edges[i].frm, Edges[i].to>> : i \in 1 .. Len(Edges)}

\* The worlds reachable from those of S along zero or more plain edges
RECURSIVE ReachableFrom(_)
ReachableFrom(S) ==
    LET T == S \cup {e[2] : e \in {x \in PlainEdges : x[1] \in S}}
    IN IF T = S THEN S ELSE ReachableFrom(T)

\* C13: G(p) -> F(q) returns True exactly when from every world where p
\* holds some world where q holds is reachable along zero or more edges of
\* the plain graph, whatever the agents of the edges; one p-world without a
\* reachable q-world makes it False.
GImpliesFIsReachability ==
    (k_pc = "done" /\ k_claim.type = "temporal") =>
        (k_ok.val <=>
            \A w \in DeclaredWorlds :
                HoldsAt(k_claim.p, w) =>
                    \E v \in ReachableFrom({w}) : HoldsAt(k_claim.q, v))

\* C13 witness: worlds {A:{p}, B:{q}} and the single edge A -> B, of an
\* agent that is not declared, give True
TrueByEdgeOfAnyAgent ==
    /\ k_pc = "done"
    /\ k_claim = [type |-> "temporal", p |-> "p", q |-> "q"]
    /\ Worlds = <<MkWorld("A", {"p"}), MkWorld("B", {"q"})>>
    /\ Edges = <<MkEdge("b", "A", "B")>>
    /\ k_ok.val = TRUE

\* The same worlds without the edge give False
FalseWithoutTheEdge ==
    /\ k_pc = "done"
    /\ k_claim = [type |-> "temporal", p |-> "p", q |-> "q"]
    /\ Worlds = <<MkWorld("A", {"p"}), MkWorld("B", {"q"})>>
    /\ Edges = <<>>
    /\ k_ok.val = FALSE

\* The worlds of the graph: the declared ones and the ends of the edges
GraphWorlds == DeclaredWorlds \cup {e[1] : e \in PlainEdges} \cup {e[2] : e \in PlainEdges}

\* In the search from one start world no world is put on the queue twice,
\* and there are no more dequeues than worlds put on the queue
SearchIsBounded ==
    /\ \A i, j \in 1 .. Len(enqueued) : enqueued[i] = enqueued[j] => i = j
    /\ dequeues + Len(dq) = Len(enqueued)
    /\ dequeues <= Cardinality(GraphWorlds)

\* A measure of the work check_G_implies_F has left: the nodes of the for
\* loop, and in a search the queue and the worlds not visited yet
SearchMeasure ==
    LET K == 2 * Cardinality(GraphWorlds) + 3
    IN CASE k_pc = "build" -> (Cardinality(GraphWorlds) + 1) * K
         [] k_pc = "for" -> Len(nodes) * K + 1
         [] k_pc = "while" ->
               Len(nodes) * K + 2 + Len(dq) + Cardinality(GraphWorlds \ visited)
         [] k_pc = "epistemic" -> 1
         [] OTHER -> 0

\* C14: check_G_implies_F terminates on every finite graph, cycles and
\* self-loops included: the visited set lets each world onto the queue at
\* most once per start world, so a search ends after at most as many
\* dequeues as the graph has worlds; every step lowers a measure that is
\* never negative, so no run goes on for ever.
SearchTerminates ==
    /\ [](SearchIsBounded /\ SearchMeasure >= 0)
    /\ [][SearchMeasure' < SearchMeasure]_vars

\* C14 witness: a search that ran around a cycle or a self-loop and ended
\* with every world it visited dequeued once
CycleSearched ==
    /\ k_pc = "done"
    /\ k_ok.val = FALSE
    /\ dequeues = Cardinality(visited)
    /\ \E e1, e2 \in PlainEdges :
          e1[1] = e2[2] /\ e1[2] = e2[1] /\ e1[1] \in visited

\* The evaluation world: the first world of the world list
EvaluationWorld == Worlds[1].id

\* The successors of world w under the accessibility relation of agent
AccessibleFrom(agent, w) ==
    {Edges[i].to : i \in {j \in 1 .. Len(Edges) :
                             Edges[j].agent = agent /\ Edges[j].frm = w}}

\* C15: an epistemic claim with operator B is True exactly when prop holds
\* in every successor of the evaluation world under the agent's relation,
\* hence True when there is none; the evaluation world is the first world
\* declared.
BelievesIsUniversal ==
    (k_pc = "done" /\ k_claim.type = "epistemic" /\ k_claim.op = "B") =>
        (k_ok.val <=>
            \A v \in AccessibleFrom(k_claim.agent, EvaluationWorld) :
                HoldsAt(k_claim.prop, v))

\* C15 witness: B is True at a first world that is not "A" and has a
\* successor
BelievedAtFirstDeclared ==
    /\ k_pc = "done"
    /\ k_claim.type = "epistemic" /\ k_claim.op = "B"
    /\ k_ok.val = TRUE
    /\ EvaluationWorld = "B"
    /\ AccessibleFrom(k_claim.agent, EvaluationWorld) # {}

\* C16: an epistemic claim with operator BB is True exactly when every
\* successor of the evaluation world satisfies B: prop holds in every
\* successor of every successor.
BelievesBelievesIsNested ==
    (k_pc = "done" /\ k_claim.type = "epistemic" /\ k_claim.op = "BB") =>
        (k_ok.val <=>
            \A v \in AccessibleFrom(k_claim.agent, EvaluationWorld) :
                \A u \in AccessibleFrom(k_claim.agent, v) :
                    HoldsAt(k_claim.prop, u))

\* C16 witness: BB is False although prop holds in every successor of the
\* evaluation world
NestedBeliefFails ==
    /\ k_pc = "done"
    /\ k_claim.type = "epistemic" /\ k_claim.op = "BB"
    /\ k_ok.val = FALSE
    /\ AccessibleFrom(k_claim.agent, EvaluationWorld) # {}
    /\ \A v \in AccessibleFrom(k_claim.agent, EvaluationWorld) :
          HoldsAt(k_claim.prop, v)

\* The claim or the model refers to something that is not declared: an end
\* of an edge that is no world, an agent that is not in the agent list, a
\* proposition that is a fact of no world
PropositionKnown(prop) == \E w \in DeclaredWorlds : HoldsAt(prop, w)

RefersToUnknown ==
    \/ \E e \in PlainEdges : e[1] \notin DeclaredWorlds \/ e[2] \notin DeclaredWorlds
    \/ /\ k_claim.type = "epistemic"
       /\ \/ \A i \in 1 .. Len(belief_model.agents) :
                belief_model.agents[i] # k_claim.agent
          \/ ~PropositionKnown(k_claim.prop)
    \/ /\ k_claim.type = "temporal"
       /\ ~PropositionKnown(k_claim.p) \/ ~PropositionKnown(k_claim.q)

\* C17: over a model that declares some world, a claim that refers to an
\* unknown world, agent or proposition fails with an error; it never gets
\* a boolean result.
UnknownReferenceIsAnError == (k_pc = "done" /\ Worlds # <<>>) => ~RefersToUnknown

\* ------------------------------------------------------------------------
\* Properties of the evidence update (checked under SpecClaim)
\* ------------------------------------------------------------------------
\* The claim without its i-th evidence item
WithoutItem(claim, i) ==
    [claim EXCEPT !.evidence = SubSeq(claim.evidence, 1, i - 1)
                               \o SubSeq(claim.evidence, i + 1, Len(claim.evidence))]

\* supports=True and lr_pos > 1
IsSupporting(ev) == ev.supports /\ ev.lr_pos[1] > ev.lr_pos[2]

ValidClaim(claim) == 0 < claim.prior /\ claim.prior < PScale /\ ValidThresholds(claim)

\* The supporting items of the evaluated claim without which the claim
\* evaluates too
ComparableItems ==
    {i \in 1 .. Len(c_claim.evidence) :
        /\ IsSupporting(c_claim.evidence[i])
        /\ evaluate_claim(WithoutItem(c_claim, i), c_now).ok}

PosteriorWithout(i) == evaluate_claim(WithoutItem(c_claim, i), c_now).val.posterior

\* C18 as stated: for a valid claim and a fixed now, an evidence item with
\* supports=True and lr_pos > 1, of any weight >= 0 and any half-life,
\* makes the posterior strictly greater than that of the claim without it.
SupportStrictlyRaisesPosterior ==
    (c_pc = "returned" /\ ValidClaim(c_claim)) =>
        \A i \in ComparableItems : c_ret.posterior > PosteriorWithout(i)

\* C18 amended: the posterior with the item is never smaller than the one
\* without it, and it is the same when the weight of the item is 0.
SupportNeverLowersPosterior ==
    (c_pc = "returned" /\ ValidClaim(c_claim)) =>
        \A i \in ComparableItems :
            /\ c_ret.posterior >= PosteriorWithout(i)
            /\ c_claim.evidence[i].weight = 0 => c_ret.posterior = PosteriorWithout(i)

\* C18 witness: a supporting item of weight 0 left the posterior where it
\* was, next to a supporting item that raised it
SupportOfWeightZero ==
    /\ c_pc = "returned"
    /\ ValidClaim(c_claim)
    /\ \E i, j \in ComparableItems :
          /\ c_claim.evidence[i].weight = 0
          /\ c_ret.posterior = PosteriorWithout(i)
          /\ c_ret.posterior > PosteriorWithout(j)

\* The contributions the evidence loop records for the evaluated claim at
\* time t
ContributionsAt(t) ==
    ApplyEvidence(SortedByObservedAt(c_claim.evidence), c_claim, t, 0, <<>>).contribs

EvidenceOf(contrib) ==
    CHOOSE ev \in {c_claim.evidence[i] : i \in 1 .. Len(c_claim.evidence)} :
        ev.id = contrib.evidence_id

\* An item without a half-life, or observed after now, is applied with a
\* decay factor of exactly 1
UndecayedItems ==
    \A k \in 1 .. Len(c_ret.contributions) :
        LET ev == EvidenceOf(c_ret.contributions[k])
        IN (ev.halflife_days = None \/ c_now < ev.observed_at) =>
               c_ret.contributions[k].decay = ZScale

\* After twenty half-lives less than a thousandth of ln(lr) * weight is left
OldItemsFade ==
    \A k \in 1 .. Len(c_ret.contributions) :
        LET ev == EvidenceOf(c_ret.contributions[k])
            c == c_ret.contributions[k]
        IN (ev.halflife_days # None /\ IsFinite(ev.weight)
            /\ c_now - ev.observed_at >= 20 * ev.halflife_days) =>
               Abs(c.delta_logodds) * 1000
                   <= Abs(FMul(MathLog(c.lr_applied[1], c.lr_applied[2]), ev.weight))

\* The items the statement on ageing is about: a half-life, a likelihood
\* ratio other than 1, observed at now or before
AgeingItems ==
    {k \in 1 .. Len(c_ret.contributions) :
        LET ev == EvidenceOf(c_ret.contributions[k])
        IN /\ ev.halflife_days # None
           /\ c_ret.contributions[k].lr_applied[1] # c_ret.contributions[k].lr_applied[2]
           /\ c_now >= ev.observed_at}

ConstructorRejectsMisorderedThresholds ==
    [][c_pc = "construct" =>
          /\ ~ValidThresholds(c_claim) =>
                 /\ c_pc' = "rejected"
                 /\ c_ret'.exc = "ValidationError"
          /\ c_pc' = "constructed" => ValidThresholds(c_claim')]_vars

\* C20: constructing a Claim whose thresholds do not satisfy
\* 0 < threshold_conditional < threshold_blocking < 1 (equal thresholds
\* included) fails with a validation error, and every Claim that reaches
\* evaluate_claim satisfies this ordering.
EveryEvaluatedClaimHasOrderedThresholds ==
    /\ ConstructorRejectsMisorderedThresholds
    /\ [](c_pc \in {"call", "returned", "raised"} => ValidThresholds(c_claim))

DefaultNowMayDiffer == c_pc = "twice" /\ c_now = None /\ c_ret2 # c_ret

\* ------------------------------------------------------------------------
\* Frame of the evaluation (checked under SpecRun and SpecClaim)
\* ------------------------------------------------------------------------
\* evaluate_claim on its own leaves the claim and the supplied now as they were.
ClaimIsReadOnly == [][c_claim' = c_claim /\ c_now' = c_now]_vars

\* C22: evaluate_note, and the evaluate_claim calls it makes, leave the note
\* and the supplied now unchanged whether the call returns or raises: every claim, and the order
\* and content of every evidence list and investigation list, are what they
\* were before the call.
InputsAreReadOnly == [][note' = note /\ now' = now]_vars

\* C22 witness: evaluate_note has returned for a note with a claim whose
\* evidence is declared out of chronological order and that has an
\* investigation, and that list is still in its declaration order
ReturnedWithUnsortedEvidence ==
    /\ pc = "returned"
    /\ \E i \in DOMAIN note :
          /\ note[i].evidence = UnsortedEvidence
          /\ SortedByObservedAt(note[i].evidence) # note[i].evidence
          /\ note[i].investigations # <<>>

\* ------------------------------------------------------------------------
\* Decay of the prior (checked under SpecClaim)
\* ------------------------------------------------------------------------
PriorLogodds == _prob_to_logodds(c_claim.prior).val

StalenessSet ==
    c_claim.staleness_halflife_days # None /\ c_claim.valid_from # None

\* d lies between 0 and lo, both included
TowardZero(d, lo) ==
    /\ lo >= 0 => (0 <= d /\ d <= lo)
    /\ lo <= 0 => (lo <= d /\ d <= 0)

\* what C23 says of every factor but its range
PriorDecaysTowardZero ==
    /\ StalenessSet => TowardZero(c_ret.prior_logodds_decayed, PriorLogodds)
    /\ c_ret.prior_logodds_decayed = FMulScaled(PriorLogodds, c_ret.prior_decay)
    /\ (~StalenessSet \/ c_claim.valid_from > c_now) => c_ret.prior_decay = ZScale

EvidenceIndexOf(k) ==
    CHOOSE i \in 1 .. Len(c_claim.evidence) :
        c_claim.evidence[i].id = c_ret.contributions[k].evidence_id

\* C24: the trace has exactly one entry per evidence item, in ascending
\* order of observed_at whatever the declaration order; items with equal
\* timestamps keep their declaration order; each entry records the
\* likelihood ratio applied, lr_pos if the item supports and lr_neg if not.
TraceIsChronological ==
    c_pc = "returned" =>
        LET cs == c_ret.contributions
            evs == c_claim.evidence
        IN /\ Len(cs) = Len(evs)
           /\ \A i \in 1 .. Len(evs) :
                 Cardinality({k \in 1 .. Len(cs) : cs[k].evidence_id = evs[i].id}) = 1
           /\ \A k \in 1 .. Len(cs) :
                 /\ cs[k].observed_at = evs[EvidenceIndexOf(k)].observed_at
                 /\ cs[k].supports = evs[EvidenceIndexOf(k)].supports
                 /\ cs[k].lr_applied = IF evs[EvidenceIndexOf(k)].supports
                                       THEN evs[EvidenceIndexOf(k)].lr_pos
                                       ELSE evs[EvidenceIndexOf(k)].lr_neg
           /\ \A k, m \in 1 .. Len(cs) :
                 k < m =>
                    /\ cs[k].observed_at <= cs[m].observed_at
                    /\ cs[k].observed_at = cs[m].observed_at => EvidenceIndexOf(k) < EvidenceIndexOf(m)

\* C24 witness: a trace whose first entry is for the item declared second,
\* one entry with lr_pos applied and one with lr_neg
TraceReordered ==
    /\ c_pc = "returned"
    /\ Len(c_ret.contributions) = 2
    /\ c_claim.evidence[1].observed_at > c_claim.evidence[2].observed_at
    /\ c_ret.contributions[1].evidence_id = c_claim.evidence[2].id
    /\ c_ret.contributions[1].lr_applied = c_claim.evidence[2].lr_neg
    /\ c_ret.contributions[2].lr_applied = c_claim.evidence[1].lr_pos
    /\ c_claim.evidence[1].lr_pos # c_claim.evidence[1].lr_neg

\* Two items with the same timestamp, in the trace in declaration order
TraceWithTie ==
    /\ c_pc = "returned"
    /\ Len(c_ret.contributions) = 2
    /\ c_claim.evidence[1].observed_at = c_claim.evidence[2].observed_at
    /\ c_claim.evidence[1].supports # c_claim.evidence[2].supports
    /\ c_ret.contributions[1].evidence_id = c_claim.evidence[1].id

\* ------------------------------------------------------------------------
\* Properties of the triage posture (checked under SpecTriage)
\* ------------------------------------------------------------------------
PostureFunctions == {"calculate_posture", "calc_posture", "src_calculate_posture"}

Dominated == t_triage.severity >= 4 \/ t_triage.reversibility <= 2

\* C25: with severity >= 4 or reversibility <= 2, calculate_posture returns
\* red when exploitability >= 3 and never green when exploitability >= 2;
\* severity 1, exploitability 1, reversibility 4 gives green.
SeverityAndReversibilityDominate ==
    (t_pc = "done" /\ t_out.fn \in PostureFunctions) =>
        /\ (Dominated /\ t_triage.exploitability >= 3) => t_out.posture = "red"
        /\ (Dominated /\ t_triage.exploitability >= 2) => t_out.posture # "green"
        /\ (/\ t_triage.severity = 1
            /\ t_triage.exploitability = 1
            /\ t_triage.reversibility = 4) => t_out.posture = "green"

\* C25 witness: calculate_posture returned red for an input whose plain risk
\* score is below 4
DominanceEscalatedToRed ==
    /\ t_pc = "done"
    /\ t_out.fn = "calculate_posture"
    /\ Dominated
    /\ t_triage.exploitability >= 3
    /\ RiskMatrix(t_triage.severity, t_triage.exploitability, t_triage.reversibility) # "red"
    /\ t_out.posture = "red"

\* ------------------------------------------------------------------------
\* Properties of the release gate (checked under SpecTriage)
\* ------------------------------------------------------------------------
\* C27: gate-check exits with code 4 if and only if the posture of the note
\* is red, or the required gate is green and the posture is not green; a red
\* posture is denied under every gate and an amber posture passes only the
\* amber gate.
GateDeniesExactlyRedOrNotGreen ==
    (t_pc = "done" /\ t_out.fn = "gate_check_cmd") =>
        /\ t_out.exit = 4 <=>
              \/ t_triage.posture = "red"
              \/ (t_gate = "green" /\ t_triage.posture # "green")
        /\ t_out.exit \in {0, 4}
        /\ t_triage.posture = "red" => t_out.exit = 4
        /\ t_triage.posture = "amber" => (t_out.exit = 0 <=> t_gate = "amber")

\* C27 witness: an amber posture denied by the green gate
AmberDeniedByGreenGate ==
    /\ t_pc = "done"
    /\ t_out.fn = "gate_check_cmd"
    /\ t_triage.posture = "amber"
    /\ t_gate = "green"
    /\ t_out.exit = 4

\* An amber posture passing the amber gate
AmberPassesAmberGate ==
    /\ t_pc = "done"
    /\ t_out.fn = "gate_check_cmd"
    /\ t_triage.posture = "amber"
    /\ t_gate = "amber"
    /\ t_out.exit = 0

\* ------------------------------------------------------------------------
\* The dominance rule against the plain risk matrix (checked under SpecTriage)
\* ------------------------------------------------------------------------
\* green < amber < red
PostureRank(p) == CASE p = "green" -> 0 [] p = "amber" -> 1 [] p = "red" -> 2

\* C29: calculate_posture and calc_posture never return a posture less
\* severe than the one the plain risk matrix score
\* severity * exploitability / reversibility gives for the same inputs
\* (stated here for inputs on the scale from 1 up).
DominanceOnlyEscalates ==
    (/\ t_pc = "done"
     /\ t_out.fn \in {"calculate_posture", "calc_posture"}
     /\ t_triage.severity >= 1
     /\ t_triage.exploitability >= 1
     /\ t_triage.reversibility >= 1) =>
        PostureRank(t_out.posture)
            >= PostureRank(RiskMatrix(t_triage.severity, t_triage.exploitability,
                                      t_triage.reversibility))

\* ------------------------------------------------------------------------
\* Exit code of the run command (checked under SpecRun)
\* ------------------------------------------------------------------------
\* C26: run exits with code 3 when the overall posture is BLOCKING, with 2
\* when it is CONDITIONAL and with 0 when it is ACCEPTABLE or EXPIRED; code 1
\* is used only for load, validation or evaluation errors.
ExitCodeFollowsOverallPosture ==
    pc = "exited" =>
        IF ~r_valid \/ ~ret.ok
        THEN exit_code = 1
        ELSE /\ ret.overall_posture = "BLOCKING" => exit_code = 3
             /\ ret.overall_posture = "CONDITIONAL" => exit_code = 2
             /\ ret.overall_posture \in {"ACCEPTABLE", "EXPIRED"} => exit_code = 0

\* What run does: code 0 for ACCEPTABLE or EXPIRED, code 1 otherwise.
ExitCodeIsZeroOrOne ==
    pc = "exited" =>
        IF r_valid /\ ret.ok /\ ret.overall_posture \in {"ACCEPTABLE", "EXPIRED"}
        THEN exit_code = 0
        ELSE exit_code = 1

\* ------------------------------------------------------------------------
\* Recommendations and the claim that declares them (checked under Spec)
\* ------------------------------------------------------------------------
\* The recommendations computed for each claim of the note from the result of
\* that very claim; none for a claim whose evaluation fails.
RECURSIVE OwnRecommendations(_)
OwnRecommendations(i) ==
    IF i > Len(note) THEN <<>>
    ELSE LET r == evaluate_claim(note[i], now)
             lo == IF r.ok THEN _prob_to_logodds(r.val.posterior) ELSE [ok |-> FALSE]
         IN (IF r.ok /\ lo.ok
             THEN RecommendationsOf(note[i], r.val, lo.val, note[i].investigations)
             ELSE <<>>)
            \o OwnRecommendations(i + 1)

EmittedFromOwnPosterior ==
    \A k \in 1 .. Len(ret.recommendations) :
        \E m \in 1 .. Len(OwnRecommendations(1)) :
            ret.recommendations[k] = OwnRecommendations(1)[m]

DistinctClaimIds == \A i, j \in 1 .. Len(note) : note[i].id = note[j].id => i = j

\* C28: every recommendation evaluate_note emits is computed from the
\* posterior of the claim that declares the investigation, and none is
\* emitted for an investigation of a claim that failed evaluation, for every
\* note, notes in which two claims share an id included.
RecommendationsFromDeclaringClaim ==
    pc = "returned" => EmittedFromOwnPosterior

\* The same for the notes whose claim ids are distinct.
RecommendationsFromDeclaringClaimDistinctIds ==
    (pc = "returned" /\ DistinctClaimIds) => EmittedFromOwnPosterior

\* ------------------------------------------------------------------------
\* The trace accounts for the update (checked under SpecClaim)
\* ------------------------------------------------------------------------
\* The sum of delta_logodds over the first k entries of the trace
RECURSIVE SumOfDeltas(_)
SumOfDeltas(k) ==
    IF k = 0 THEN 0 ELSE SumOfDeltas(k - 1) + c_ret.contributions[k].delta_logodds

TraceIsFinite ==
    \A k \in 1 .. Len(c_ret.contributions) : IsFinite(c_ret.contributions[k].delta_logodds)

\* The posterior regenerated from the fields of the result
RegeneratedPosterior ==
    IF TraceIsFinite
    THEN _logodds_to_prob(c_ret.prior_logodds_decayed
                          + SumOfDeltas(Len(c_ret.contributions)))
    ELSE IF \E k \in 1 .. Len(c_ret.contributions) :
                c_ret.contributions[k].delta_logodds = PInf
         THEN PScale
         ELSE 0

\* The posterior is the one of prior_logodds_decayed plus the sum of the
\* deltas, and each delta is ln(lr_applied) * weight * decay of its entry.
TraceAccountsForPosterior ==
    /\ c_ret.posterior = RegeneratedPosterior
    /\ \A k \in 1 .. Len(c_ret.contributions) :
          LET c == c_ret.contributions[k]
          IN c.delta_logodds
                = FMulScaled(FMul(MathLog(c.lr_applied[1], c.lr_applied[2]), c.weight),
                             c.decay)

\* The results evaluate_claim returns for the same claim with other valid
\* thresholds
ResultsWithOtherThresholds ==
    { evaluate_claim([c_claim EXCEPT !.threshold_conditional = th[1],
                                     !.threshold_blocking = th[2]], c_now) :
        th \in {t \in ThresholdPairs : t[1] < t[2]} }

\* C30 as stated: the log-odds of the posterior is prior_logodds_decayed plus
\* the sum of delta_logodds, each delta_logodds is ln(lr_applied) * weight *
\* decay of its entry, and the posterior and the posture can be regenerated
\* from the result alone: the other fields of the result determine them.
ResultAloneGivesPosteriorAndPosture ==
    c_pc = "returned" =>
        /\ TraceAccountsForPosterior
        /\ \A r \in ResultsWithOtherThresholds :
              (r.ok /\ [r.val EXCEPT !.posture = c_ret.posture] = c_ret)
                  => r.val.posture = c_ret.posture

\* C30 amended: the same accounting; the posterior is regenerated from the
\* result alone, and the posture from the regenerated posterior, the expired
\* flag and the two thresholds of the claim, which the result does not hold.
ResultAndThresholdsGivePosture ==
    c_pc = "returned" =>
        /\ TraceAccountsForPosterior
        /\ c_ret.expired => c_ret.posture = "EXPIRED"
        /\ ~c_ret.expired =>
              c_ret.posture =
                 (IF RegeneratedPosterior >= c_claim.threshold_blocking THEN "BLOCKING"
                  ELSE IF RegeneratedPosterior >= c_claim.threshold_conditional
                  THEN "CONDITIONAL"
                  ELSE "ACCEPTABLE")

\* C30 witness: a result with two entries of non-zero delta, one of them
\* decayed, whose posterior differs from the prior's
TraceOfTwoDeltas ==
    /\ c_pc = "returned"
    /\ ~c_ret.expired
    /\ Len(c_ret.contributions) = 2
    /\ TraceIsFinite
    /\ c_ret.contributions[1].delta_logodds # 0
    /\ c_ret.contributions[2].delta_logodds # 0
    /\ \E k \in 1 .. 2 : /\ c_ret.contributions[k].decay < ZScale
                         /\ c_ret.contributions[k].decay > 0
    /\ SumOfDeltas(2) # 0
    /\ c_ret.posterior = RegeneratedPosterior
    /\ c_ret.posterior # _logodds_to_prob(c_ret.prior_logodds_decayed)
====
